---------------------------- MODULE Spec2Model ----------------------------
(***************************************************************************)
(* Model of the img-cli outfit-swap pipeline: the sweep driver and its     *)
(* cost gate (pkg/workflow), the analysis caches (pkg/cache), and the      *)
(* retrying, rate-limited HTTP client (pkg/client).                        *)
(*                                                                         *)
(* Money is counted in cents, time in ticks.                               *)
(***************************************************************************)
EXTENDS Integers, Sequences, FiniteSets, TLC

(***************************************************************************)
(* Bounds of the model                                                     *)
(***************************************************************************)
MaxRefFiles == 3      \* reference files supplied over all slots of one run
MaxSubjects == 2      \* size of a small subject list; subjects a sweep is followed through
ConfirmSweep == 126   \* a subject list whose cost passes the $5 threshold
HugeSweep == 1251     \* a subject list whose cost passes the $50 maximum
MaxVariations == 2    \* largest --variations value
MaxContents == 2      \* distinct byte contents of a reference image
MaxRecords == 2       \* distinct analysis records
MaxNow == 8           \* days the clock of the cache model runs
MaxRetriesCap == 6    \* largest RetryConfig.MaxRetries a client is built with
MaxRate == 3          \* largest requests-per-second a limiter is built with
TicksPerInterval == 2 \* clock ticks in one refill interval of the limiter
MaxWorkers == 2       \* largest worker count a pool is asked for
MaxTasks == 3         \* largest number of tasks handed to a pool
MaxDirImages == 3     \* image files in a directory given for a component
MaxComponents == 3    \* components given for one combination
MaxItems == 3         \* longest item list given to ParallelMap
MaxPmWorkers == 2     \* largest worker count given to ParallelMap

(***************************************************************************)
(* Program constants                                                       *)
(***************************************************************************)
CostPerImage == 4               \* cents, config.DefaultCostConfig
ConfirmationThreshold == 500    \* cents
MaximumCost == 5000             \* cents
ModularCostPerImage == 4        \* cents, literal 0.04 of the modular path
ModularConfirmThreshold == 500  \* cents, literal 5.00 of the modular path
TTL == 7                        \* days, default ttl of NewCache
DefaultMaxRetries == 3          \* DefaultRetryConfig
InitialBackoff == 1             \* seconds
MaxBackoff == 30                \* seconds
BackoffFactor == 2

VARIABLES
    \* ---- workflow driver (pkg/workflow) ----
    targetImages,     \* len(options.TargetImages)
    files,            \* slot -> number of resolved reference files (0: slot not given)
    variations,       \* options.Variations
    skipCostConfirm,  \* options.SkipCostConfirm
    wfPc,             \* "start" | "prompt" | "sweep" | "returned"
    wfErr,            \* error returned by RunWorkflow ("" : nil)
    estimate,         \* image count of the pre-flight cost analysis
    cur,              \* loop variables of the sweep: slot -> index
    phase,            \* position inside one iteration of the sweep
    vi,               \* variation index inside the standard path
    genCalls,         \* calls of a generator's Generate
    written,          \* output files written
    steps,            \* generation steps appended to result.Steps
    combos,           \* iterations begun: modular combinations, or outfits of the standard path
    analysisFailed,   \* some analysis of this run failed
    answer,           \* what was typed at the cost prompt ("-": not asked)
    recent,           \* names of the output files written in the present clock second
    dupPath,          \* some output path has been recorded twice
    \* ---- analysis cache (pkg/cache), one key (kind, image) ----
    impl,             \* "Cache" | "OptimizedCache"
    kind,             \* analysis type of the key
    image,            \* byte content of the reference image
    now,              \* clock, in days
    cacheFile,        \* the file <cacheDir>/<key>.json
    index,            \* OptimizedCache.index[key]
    got,              \* outcome of the Get that was the last operation
    pinned,           \* record an external edit put into the cache file
    setPc,            \* writer -> position inside a concurrent Set
    setEntry,         \* writer -> entry the writer is about to write
    firstWriter,      \* the writer whose write reached the file first
    \* ---- one request in a client (pkg/client, pkg/gemini) ----
    client,           \* "OptimizedClient" | "Client"
    maxRetries,       \* retryConfig.MaxRetries
    attempt,          \* loop variable of DoWithRetry
    backoff,          \* seconds the next backoff sleeps
    lastErr,          \* "nil" | "transport" | "server error"
    retryPc,          \* "wait" | "do" | "backoff" | "returned"
    calls,            \* requests httpClient.Do sent out (none once ctx is done)
    outcomes,         \* what each call gave back, in order
    result,           \* what the request returned to its caller
    ctxDone,          \* the request context is cancelled
    \* ---- rate limiter (pkg/client) ----
    rps,              \* requestsPerSecond the limiter was built with
    tokens,           \* RateLimiter.tokens
    refillAge,        \* ticks since RateLimiter.lastRefill
    holder,           \* the caller that holds RateLimiter.mu
    sleepLeft,        \* ticks until the holder's timer fires
    cancelled,        \* caller -> its context is done
    admitted,         \* age in ticks -> calls of Wait that returned nil then
    waitRet,          \* caller -> what its last Wait returned
    \* ---- worker pool (pkg/concurrent) ----
    poolMode,         \* "batch" | "direct"
    nTasks,           \* len(tasks)
    nWorkers,         \* WorkerPool.workers
    taskQueue,        \* WorkerPool.taskQueue: ids of the queued tasks
    queueClosed,      \* taskQueue is closed
    results,          \* WorkerPool.results: ids of the tasks reported
    resultsClosed,    \* results is closed
    poolCtxDone,      \* WorkerPool.ctx is cancelled
    callerCtxDone,    \* the ctx given to ProcessBatch is cancelled
    wpc,              \* worker -> "select" | "process" | "send" | "exit"
    wtask,            \* worker -> the task it holds
    prodPc,           \* the submitting goroutine: "submit" | "wgWait" | "done"
    nextTask,         \* the next task it submits
    shutPc,           \* Shutdown: "idle" | "closeQueue" | "wgWait" | "done"
    collected,        \* results the caller has received
    collectorDone,    \* the caller's range over Results has ended
    panicked,         \* the runtime panic that ended the process
    startedAfter,     \* tasks a worker took after a cancellation
    acceptedAfter,    \* tasks the queue took after a cancellation
    processed,        \* tasks whose Process has returned
    \* ---- requests of the callers of one client (pkg/client) ----
    reqPc,            \* caller -> "lock" | "sleep" | "do" | "backoff" | "returned"
    reqAttempt,       \* caller -> loop variable of its DoWithRetry
    reqResult,        \* caller -> "none" | "resp" | "APIError" | "ctxErr"
    sent,             \* caller -> requests that went out to the oracle
    \* ---- reference resolution of one modular run (pkg/workflow) ----
    resolved,         \* component inputs resolved so far
    resSlot,          \* componentType of the last resolution
    resInput,         \* what the user gave for it
    resFiles,         \* what collectFilesForComponent returned for it
    resErr,           \* collectFilesForComponent returned an error
    resLoop,          \* the list the sweep loops over for it
    \* ---- the composition of one directive (pkg/workflow) ----
    cfgOutfit,        \* ModularConfig.OutfitRef
    cfgOverOutfit,    \* ModularConfig.OverOutfitRef
    compPc,           \* "config" | "analysed" | "prompted" | "failed"
    components,       \* the outfit fields of models.ModularComponents
    prompt,           \* the outfit section of the prompt
    cfgStyle,         \* ModularConfig.StyleRef
    cfgExpression,    \* ModularConfig.ExpressionRef
    cfgHairStyle,     \* ModularConfig.HairStyleRef is given
    cfgHairColor,     \* ModularConfig.HairColorRef is given
    sections,         \* the other sections of the prompt
    \* ---- the outfit analysis of one file over several runs ----
    exCache,          \* the entry outfit_<file> of the outfit cache
    exRun,            \* what the present run is given separately
    exEnable,         \* Orchestrator.enableCache in the present run
    exUsed,           \* the outfit analysis the present run works with
    \* ---- one call of ParallelMap (pkg/concurrent) ----
    pmItems,          \* items
    pmWorkers,        \* workers
    pmPc,             \* where the calling goroutine is
    gpc,              \* item index -> where its goroutine is
    sem,              \* number of values in the semaphore channel
    resultsChan,      \* the buffered channel of indexed results
    pmClosed,         \* resultsChan is closed
    fnResult,         \* item index -> what fn returned for it
    pmResults,        \* the result slice being filled
    pmCtxDone,        \* the context given by the caller is done
    \* ---- the two analysis paths over one cache directory ----
    rtCache,          \* key -> the data stored under it
    rtPopulated,      \* key -> what the call that stored the entry returned
    rtCall            \* the last analysis call and what it returned

wfVars == <<targetImages, files, variations, skipCostConfirm, wfPc, wfErr,
            estimate, cur, phase, vi, genCalls, written, steps, combos,
            analysisFailed, answer, recent, dupPath>>

cacheVars == <<impl, kind, image, now, cacheFile, index, got, pinned,
               setPc, setEntry, firstWriter>>

retryVars == <<client, maxRetries, attempt, backoff, lastErr, retryPc, calls,
               outcomes, result, ctxDone>>

limVars == <<rps, tokens, refillAge, holder, sleepLeft, cancelled, admitted,
             waitRet>>

poolVars == <<poolMode, nTasks, nWorkers, taskQueue, queueClosed, results,
              resultsClosed, poolCtxDone, callerCtxDone, wpc, wtask, prodPc,
              nextTask, shutPc, collected, collectorDone, panicked,
              startedAfter, acceptedAfter, processed>>

cliVars == <<reqPc, reqAttempt, reqResult, sent>>

resVars == <<resolved, resSlot, resInput, resFiles, resErr, resLoop>>

compVars == <<cfgOutfit, cfgOverOutfit, compPc, components, prompt,
              cfgStyle, cfgExpression, cfgHairStyle, cfgHairColor, sections>>

exVars == <<exCache, exRun, exEnable, exUsed>>

pmVars == <<pmItems, pmWorkers, pmPc, gpc, sem, resultsChan, pmClosed,
            fnResult, pmResults, pmCtxDone>>

rtVars == <<rtCache, rtPopulated, rtCall>>

vars == <<wfVars, cacheVars, retryVars, limVars, poolVars, cliVars, resVars,
          compVars, exVars, pmVars, rtVars>>

\* what the actions of one part of the program leave alone
nonWfVars == <<cacheVars, retryVars, limVars, poolVars, cliVars, resVars,
    compVars, exVars, pmVars, rtVars>>
nonCacheVars == <<wfVars, retryVars, limVars, poolVars, cliVars, resVars,
    compVars, exVars, pmVars, rtVars>>
nonRetryVars == <<wfVars, cacheVars, limVars, poolVars, cliVars, resVars,
    compVars, exVars, pmVars, rtVars>>
nonLimVars == <<wfVars, cacheVars, retryVars, poolVars, cliVars, resVars,
    compVars, exVars, pmVars, rtVars>>
nonPoolVars == <<wfVars, cacheVars, retryVars, limVars, cliVars, resVars,
    compVars, exVars, pmVars, rtVars>>
nonClientVars == <<wfVars, cacheVars, retryVars, poolVars, resVars,
    compVars, exVars, pmVars, rtVars>>
nonResVars == <<wfVars, cacheVars, retryVars, limVars, poolVars, cliVars,
    compVars, exVars, pmVars, rtVars>>
nonCompVars == <<wfVars, cacheVars, retryVars, limVars, poolVars, cliVars,
    resVars, exVars, pmVars, rtVars>>
nonExVars == <<wfVars, cacheVars, retryVars, limVars, poolVars, cliVars,
    resVars, compVars, pmVars, rtVars>>
nonRtVars == <<wfVars, cacheVars, retryVars, limVars, poolVars, cliVars,
    resVars, compVars, exVars, pmVars>>
nonPmVars == <<wfVars, cacheVars, retryVars, limVars, poolVars, cliVars,
    resVars, compVars, exVars, rtVars>>

(***************************************************************************)
(* Sweep driver                                                            *)
(***************************************************************************)
Slots == {"outfit", "overOutfit", "style", "hairStyle", "hairColor",
          "makeup", "expression", "accessories"}

\* same, with the outfit loop around the subject loop
OrderOutfitOutermost == <<"outfit", "subject", "overOutfit", "style",
                          "hairStyle", "hairColor", "makeup", "expression",
                          "accessories">>

\* nesting of the loops of the sweep, outermost first
Order == <<"subject", "outfit", "overOutfit", "style", "hairStyle",
           "hairColor", "makeup", "expression", "accessories">>

maxInt(a, b) == IF a > b THEN a ELSE b

\* ensureAtLeastOne, by length
ensureAtLeastOne(n) == IF n = 0 THEN 1 ELSE n

hasModularComponents ==
    \/ files["hairStyle"] /= 0
    \/ files["hairColor"] /= 0
    \/ files["makeup"] /= 0
    \/ files["expression"] /= 0
    \/ files["accessories"] /= 0
    \/ files["overOutfit"] /= 0

\* totalImages with the style factor taken as len(styleFiles), not maxInt(1, .)
ModularTotalImagesNoMax ==
    targetImages
      * maxInt(1, files["outfit"])
      * maxInt(1, files["overOutfit"])
      * files["style"]
      * maxInt(1, files["hairStyle"])
      * maxInt(1, files["hairColor"])
      * maxInt(1, files["makeup"])
      * maxInt(1, files["expression"])
      * maxInt(1, files["accessories"])
      * variations

\* totalImages of runOutfitSwapModularWorkflow
ModularTotalImages ==
    targetImages
      * maxInt(1, files["outfit"])
      * maxInt(1, files["overOutfit"])
      * maxInt(1, files["style"])
      * maxInt(1, files["hairStyle"])
      * maxInt(1, files["hairColor"])
      * maxInt(1, files["makeup"])
      * maxInt(1, files["expression"])
      * maxInt(1, files["accessories"])
      * variations

calculateOutfitSwapImageCount(numSubjects, numOutfits, numStyles, numVariations) ==
    LET v == IF numVariations < 1 THEN 1 ELSE numVariations
        s == IF numStyles < 1 THEN 1 ELSE numStyles
    IN  numSubjects * numOutfits * s * v

\* variations as clamped at the head of runOutfitSwapWorkflow
StdVariations == IF variations < 1 THEN 1 ELSE variations

\* numStyles of runOutfitSwapWorkflow: an unset style counts as one
StdNumStyles == IF files["style"] /= 0 THEN files["style"] ELSE 1

CalculateTotalCost(imageCount) == imageCount * CostPerImage

RequiresConfirmation(imageCount) ==
    CalculateTotalCost(imageCount) > ConfirmationThreshold

ExceedsMaximum(imageCount) == CalculateTotalCost(imageCount) > MaximumCost

\* lengths of the lists each loop of the sweep ranges over
ModularDims ==
    [k \in {"subject"} \cup Slots |->
        IF k = "subject" THEN targetImages ELSE ensureAtLeastOne(files[k])]

StdDims ==
    [k \in {"subject"} \cup Slots |->
        CASE k = "subject" -> targetImages
          [] k = "outfit"  -> files["outfit"]
          [] k = "style"   -> StdNumStyles
          [] OTHER         -> 1]

First == [k \in {"subject"} \cup Slots |-> 1]

\* the loops at nesting depth <= d that still have a next element
More(dims, c, d) == {j \in 1..d : c[Order[j]] < dims[Order[j]]}

\* the loop variables after the iteration at nesting depth d ends: the
\* innermost loop at depth <= d that has a next element steps, the loops
\* inside it restart
NextAt(dims, c, d) ==
    LET j == CHOOSE x \in More(dims, c, d) : \A y \in More(dims, c, d) : y <= x
    IN  [k \in {"subject"} \cup Slots |->
            LET p == CHOOSE q \in 1..Len(Order) : Order[q] = k
            IN  IF p < j THEN c[k]
                ELSE IF p = j THEN c[k] + 1
                ELSE 1]

Depth(k) == CHOOSE q \in 1..Len(Order) : Order[q] = k

\* ---- the cost gate ----

\* checkWorkflowCost past the prompt: the hard limit
HardLimit(imageCount) ==
    IF ExceedsMaximum(imageCount) THEN "exceeds maximum" ELSE ""

EnterSweep ==
    /\ wfPc' = "sweep"
    /\ wfErr' = ""
    /\ cur' = First

Return(err) ==
    /\ wfPc' = "returned"
    /\ wfErr' = err
    /\ UNCHANGED cur

\* runOutfitSwapWorkflow up to the answer of checkWorkflowCost's prompt
StdStart ==
    /\ wfPc = "start"
    /\ UNCHANGED nonWfVars
    /\ ~hasModularComponents
    /\ UNCHANGED <<targetImages, files, variations, skipCostConfirm, answer, vi,
                   genCalls, written, steps, combos, analysisFailed, recent,
                   dupPath>>
    /\ IF files["outfit"] = 0
       THEN \* no outfit source provided
            /\ Return("no outfit source")
            /\ UNCHANGED <<estimate, phase>>
       ELSE LET n == calculateOutfitSwapImageCount(targetImages,
                        files["outfit"], StdNumStyles, StdVariations)
            IN  /\ estimate' = n
                /\ phase' = "outfit"
                /\ IF ~skipCostConfirm /\ RequiresConfirmation(n)
                   THEN /\ wfPc' = "prompt"
                        /\ UNCHANGED <<wfErr, cur>>
                   ELSE IF HardLimit(n) /= ""
                        THEN Return(HardLimit(n))
                        ELSE EnterSweep

\* the answers a user can type at a prompt, and a failed read of stdin
Answers == {"y", "yes", "n", ""}

\* prompt.ConfirmExpensiveOperation
ConfirmExpensiveOperation(response) == response \in {"yes", "y"}

StdAnswer(response, readErr) ==
    /\ wfPc = "prompt"
    /\ UNCHANGED nonWfVars
    /\ ~hasModularComponents
    /\ answer' = IF readErr THEN "read error" ELSE response
    /\ UNCHANGED <<targetImages, files, variations, skipCostConfirm, vi,
                   genCalls, written, steps, combos, analysisFailed,
                   estimate, phase, recent, dupPath>>
    /\ IF readErr
       THEN Return("failed to get user confirmation")
       ELSE IF ~ConfirmExpensiveOperation(response)
            THEN Return("workflow cancelled by user")
            ELSE IF HardLimit(estimate) /= ""
                 THEN Return(HardLimit(estimate))
                 ELSE EnterSweep

\* runOutfitSwapModularWorkflow up to its prompt
ModularStart ==
    /\ wfPc = "start"
    /\ UNCHANGED nonWfVars
    /\ hasModularComponents
    /\ UNCHANGED <<targetImages, files, variations, skipCostConfirm, answer, vi,
                   genCalls, written, steps, combos, analysisFailed, recent,
                   dupPath>>
    /\ estimate' = ModularTotalImages
    /\ phase' = "combo"
    /\ IF ~skipCostConfirm
          /\ ModularTotalImages * ModularCostPerImage > ModularConfirmThreshold
       THEN /\ wfPc' = "prompt"
            /\ UNCHANGED <<wfErr, cur>>
       ELSE EnterSweep

\* the prompt of the modular path with its answer ignored
ModularAnswerIgnored(response) ==
    /\ wfPc = "prompt"
    /\ UNCHANGED nonWfVars
    /\ hasModularComponents
    /\ answer' = response
    /\ UNCHANGED <<targetImages, files, variations, skipCostConfirm, vi,
                   genCalls, written, steps, combos, analysisFailed,
                   estimate, phase, recent, dupPath>>
    /\ EnterSweep

\* the modular path proceeds on "y" alone; a decline returns the empty
\* result with a nil error
ModularAnswer(response) ==
    /\ wfPc = "prompt"
    /\ UNCHANGED nonWfVars
    /\ hasModularComponents
    /\ answer' = response
    /\ UNCHANGED <<targetImages, files, variations, skipCostConfirm, vi,
                   genCalls, written, steps, combos, analysisFailed,
                   estimate, phase, recent, dupPath>>
    /\ IF response /= "y"
       THEN Return("")
       ELSE EnterSweep

\* ---- the sweep ----

Step(dims, d) ==
    IF More(dims, cur, d) = {}
    THEN /\ wfPc' = "returned"
         /\ wfErr' = ""
         /\ cur' = cur
    ELSE /\ wfPc' = "sweep"
         /\ wfErr' = wfErr
         /\ cur' = NextAt(dims, cur, d)

\* same, with a failed entry ending the run with its error
Abort(dims, d) == Return("entry failed")

\* the `continue` after a failed analysis: the loop at depth d goes on to
\* its next element
Continue(dims, d) == Step(dims, d)

\* the parts of an output file name besides the timestamp: outfit, style
\* and subject (ModularGenerator.Generate, CombinedGenerator.Generate)
NameOf(c) == <<c["outfit"], c["style"], c["subject"]>>

\* n files of one name are written, each later one at least two seconds
\* after the one before; `same` says that the first is stamped with the
\* clock second of the file written before it
Record(name, n, same) ==
    LET base == IF same THEN recent ELSE {}
    IN  IF n = 0
          THEN /\ recent' = base
               /\ dupPath' = dupPath
          ELSE /\ dupPath' = (dupPath \/ name \in base)
               /\ recent' = IF n >= 2 THEN {name} ELSE base \cup {name}

\* the pause after a generation of the standard path:
\* if v < variations || styleIndex < ... { time.Sleep(1 * time.Second) }
StdPauses == vi < StdVariations \/ More(StdDims, cur, Depth("style")) /= {}

\* one iteration of the innermost loop of runOutfitSwapModularWorkflow:
\* RunModularWorkflow analyses the components, then calls Generate once per
\* variation; ok of them succeed and are appended to result.Steps
RunModularWorkflow(analysed, ok, same) ==
    /\ wfPc = "sweep"
    /\ UNCHANGED nonWfVars
    /\ hasModularComponents
    /\ cur["subject"] <= MaxSubjects
    /\ combos' = combos + 1
    /\ UNCHANGED <<targetImages, files, variations, skipCostConfirm, answer, vi,
                   estimate, phase>>
    /\ IF ~analysed
       THEN /\ analysisFailed' = TRUE
            /\ Record(NameOf(cur), 0, same)
            /\ UNCHANGED <<genCalls, written, steps>>
       ELSE /\ ok <= maxInt(0, variations)
            /\ genCalls' = genCalls + maxInt(0, variations)
            /\ written' = written + ok
            /\ steps' = steps + ok
            /\ Record(NameOf(cur), ok, same)
            /\ UNCHANGED analysisFailed
    /\ IF ~analysed
         THEN Continue(ModularDims, Depth("accessories"))
         ELSE Step(ModularDims, Depth("accessories"))

\* head of the outfit loop of runOutfitSwapWorkflow: AnalyzeImage("outfit")
StdOutfit(analysed) ==
    /\ wfPc = "sweep"
    /\ UNCHANGED nonWfVars
    /\ cur["subject"] <= MaxSubjects
    /\ ~hasModularComponents
    /\ phase = "outfit"
    /\ UNCHANGED <<targetImages, files, variations, skipCostConfirm, answer, vi,
                   estimate, genCalls, written, steps, recent, dupPath>>
    /\ combos' = combos + 1
    /\ IF analysed
       THEN /\ phase' = "style"
            /\ UNCHANGED <<wfPc, wfErr, cur, analysisFailed>>
       ELSE /\ analysisFailed' = TRUE
            /\ phase' = "outfit"
            /\ Continue(StdDims, Depth("outfit"))

\* head of the style loop: AnalyzeImage("visual_style")
StdStyle(analysed) ==
    /\ wfPc = "sweep"
    /\ UNCHANGED nonWfVars
    /\ cur["subject"] <= MaxSubjects
    /\ ~hasModularComponents
    /\ phase = "style"
    /\ UNCHANGED <<targetImages, files, variations, skipCostConfirm, answer,
                   estimate, genCalls, written, steps, combos, recent,
                   dupPath>>
    /\ IF analysed
       THEN /\ phase' = "gen"
            /\ vi' = 1
            /\ UNCHANGED <<wfPc, wfErr, cur, analysisFailed>>
       ELSE /\ analysisFailed' = TRUE
            /\ UNCHANGED vi
            /\ Continue(StdDims, Depth("style"))
            /\ phase' = IF cur'["outfit"] = cur["outfit"]
                           /\ cur'["subject"] = cur["subject"]
                           /\ wfPc' = "sweep"
                        THEN "style" ELSE "outfit"

\* body of the variation loop: GenerateImage("combined", ...)
StdGenerate(ok, same) ==
    /\ wfPc = "sweep"
    /\ UNCHANGED nonWfVars
    /\ ~hasModularComponents
    /\ phase = "gen"
    /\ cur["subject"] <= MaxSubjects
    /\ genCalls' = genCalls + 1
    /\ written' = IF ok THEN written + 1 ELSE written
    /\ steps' = IF ok THEN steps + 1 ELSE steps
    /\ IF ok
         THEN /\ dupPath' = (dupPath \/ (same /\ NameOf(cur) \in recent))
              /\ recent' = IF StdPauses THEN {}
                            ELSE (IF same THEN recent ELSE {}) \cup {NameOf(cur)}
         ELSE Record(NameOf(cur), 0, same)
    /\ UNCHANGED <<targetImages, files, variations, skipCostConfirm, answer,
                   estimate, combos, analysisFailed>>
    /\ IF vi < StdVariations
       THEN /\ vi' = vi + 1
            /\ UNCHANGED <<wfPc, wfErr, cur, phase>>
       ELSE /\ vi' = 1
            /\ Step(StdDims, Depth("style"))
            /\ phase' = IF cur'["outfit"] = cur["outfit"]
                           /\ cur'["subject"] = cur["subject"]
                           /\ wfPc' = "sweep"
                        THEN "style" ELSE "outfit"

\* StepResult.Name of the generation steps a path appends to result.Steps
StepName == IF hasModularComponents THEN "modular" ELSE "combined"

\* generatedCount of runOutfitSwap, the figure of "Created %d images": the
\* steps of type "generation" that are named "combined"
generatedCount == IF StepName = "combined" THEN steps ELSE 0

SubjectCounts == {1, MaxSubjects, ConfirmSweep, HugeSweep}

RECURSIVE SumOver(_, _)
SumOver(f, S) ==
    IF S = {} THEN 0
    ELSE LET k == CHOOSE x \in S : TRUE IN f[k] + SumOver(f, S \ {k})

WfInit ==
    /\ targetImages \in SubjectCounts
    /\ files \in {f \in [Slots -> 0..MaxRefFiles] : SumOver(f, Slots) <= MaxRefFiles}
    /\ variations \in 0..MaxVariations
    /\ skipCostConfirm \in BOOLEAN
    /\ wfPc = "start"
    /\ wfErr = ""
    /\ estimate = 0
    /\ cur = First
    /\ phase = "none"
    /\ vi = 1
    /\ genCalls = 0
    /\ written = 0
    /\ steps = 0
    /\ combos = 0
    /\ analysisFailed = FALSE
    /\ answer = "-"
    /\ recent = {}
    /\ dupPath = FALSE

WfNext ==
    \/ StdStart
    \/ \E r \in Answers, e \in BOOLEAN : StdAnswer(r, e)
    \/ ModularStart
    \/ \E r \in Answers : ModularAnswer(r)
    \/ \E a \in BOOLEAN, ok \in 0..MaxVariations, same \in BOOLEAN :
          RunModularWorkflow(a, ok, same)
    \/ \E a \in BOOLEAN : StdOutfit(a)
    \/ \E a \in BOOLEAN : StdStyle(a)
    \/ \E ok \in BOOLEAN, same \in BOOLEAN : StdGenerate(ok, same)

WfIdle ==
    /\ targetImages = 1
    /\ files = [k \in Slots |-> 0]
    /\ variations = 1
    /\ skipCostConfirm = FALSE
    /\ wfPc = "start"
    /\ wfErr = ""
    /\ estimate = 0
    /\ cur = First
    /\ phase = "none"
    /\ vi = 1
    /\ genCalls = 0
    /\ written = 0
    /\ steps = 0
    /\ combos = 0
    /\ analysisFailed = FALSE
    /\ answer = "-"
    /\ recent = {}
    /\ dupPath = FALSE

(***************************************************************************)
(* Analysis cache                                                          *)
(***************************************************************************)
Impls == {"Cache", "OptimizedCache"}
Kinds == {"outfit", "visual_style"}
Contents == 1..MaxContents
Records == 1..MaxRecords
Writers == {"w1", "w2"}

NoFile == [state |-> "absent", ts |-> 0, hash |-> 0, data |-> 0, len |-> 0]
Garbage == [state |-> "garbage", ts |-> 0, hash |-> 0, data |-> 0, len |-> 0]
NoIndex == [present |-> FALSE, ts |-> 0, hash |-> 0]
NoGet == [called |-> FALSE, hit |-> FALSE, data |-> 0,
          hadEntry |-> FALSE, stale |-> FALSE, age |-> 0,
          analysis |-> FALSE, oracle |-> FALSE, generated |-> FALSE]
NoPin == [data |-> 0, ts |-> 0]

\* getFileHash of a reference image of at most 10 MiB: the MD5 of its
\* bytes, one value per content
getFileHash(content) == content

\* the CacheEntry that Set marshals; len is the length of the JSON text,
\* which grows with the record
CacheEntry(data) ==
    [state |-> "entry", ts |-> now, hash |-> getFileHash(image),
     data |-> data, len |-> data]

Parseable(f) == f.state = "entry"

\* what the caller of Get observes, with the facts about the stored entry
\* at the time of the call
Observed(hit) ==
    [called |-> TRUE, hit |-> hit,
     data |-> IF hit THEN cacheFile.data ELSE 0,
     hadEntry |-> Parseable(cacheFile),
     stale |-> Parseable(cacheFile) /\ cacheFile.hash /= getFileHash(image),
     age |-> IF Parseable(cacheFile) THEN now - cacheFile.ts ELSE 0,
     analysis |-> FALSE, oracle |-> FALSE, generated |-> FALSE]

Idle == \A w \in Writers : setPc[w] = "idle"

\* same, with entries as old as the TTL no longer found
FoundWithinTTL == Parseable(cacheFile) /\ now - cacheFile.ts < TTL

\* the `found` of Cache.Get: the file could be read and parsed
Found == Parseable(cacheFile)

\* Cache.Get: a parseable file is a hit; neither the TTL nor the file hash
\* is looked at
CacheGet ==
    /\ impl = "Cache"
    /\ UNCHANGED nonCacheVars
    /\ Idle
    /\ got' = Observed(Found)
    /\ UNCHANGED <<impl, kind, image, now, cacheFile, index, pinned,
                   setPc, setEntry, firstWriter>>

\* Cache.Set, run by one caller alone: an existing file, parseable or not,
\* is left as it is
CacheSet(data, writeOk) ==
    /\ impl = "Cache"
    /\ UNCHANGED nonCacheVars
    /\ Idle
    /\ got' = NoGet
    /\ cacheFile' = IF cacheFile.state /= "absent" THEN cacheFile
                    ELSE IF writeOk THEN CacheEntry(data)
                    ELSE cacheFile
    /\ UNCHANGED <<impl, kind, image, now, index, pinned,
                   setPc, setEntry, firstWriter>>

\* Orchestrator.AnalyzeImage and analyzeWithCache, the analysis request of
\* one sweep entry with caching enabled: a cached
\* record is returned as it is; otherwise the vision oracle is asked and its
\* record, if it gave one, is handed to Cache.Set, whose error is dropped.
\* The entry goes on to its generation call when the analysis returned a
\* record.
AnalyzeImage(ok, r, writeOk) ==
    /\ impl = "Cache"
    /\ UNCHANGED nonCacheVars
    /\ Idle
    /\ IF Found
         THEN /\ got' = [Observed(TRUE) EXCEPT !.analysis = TRUE,
                                               !.generated = TRUE]
              /\ UNCHANGED cacheFile
         ELSE /\ got' = [Observed(FALSE) EXCEPT !.analysis = TRUE,
                                                !.oracle = TRUE,
                                                !.data = IF ok THEN r ELSE 0,
                                                !.generated = ok]
              /\ cacheFile' = IF ~ok \/ cacheFile.state /= "absent" THEN cacheFile
                              ELSE IF writeOk THEN CacheEntry(r)
                              ELSE cacheFile
    /\ UNCHANGED <<impl, kind, image, now, index, pinned,
                   setPc, setEntry, firstWriter>>

\* Cache.Clear removes the directory; Cache.ClearType removes the parseable
\* entries of one type
CacheClear(all, t) ==
    /\ impl = "Cache"
    /\ UNCHANGED nonCacheVars
    /\ Idle
    /\ got' = NoGet
    /\ pinned' = NoPin
    /\ cacheFile' = IF all \/ (Parseable(cacheFile) /\ t = kind)
                    THEN NoFile ELSE cacheFile
    /\ UNCHANGED <<impl, kind, image, now, index, setPc, setEntry, firstWriter>>

\* OptimizedCache.evict
evict ==
    /\ index' = NoIndex
    /\ cacheFile' = NoFile

\* OptimizedCache.GetOutfitAnalysis
GetOutfitAnalysis ==
    /\ impl = "OptimizedCache"
    /\ UNCHANGED nonCacheVars
    /\ kind = "outfit"
    /\ Idle
    /\ UNCHANGED <<impl, kind, image, now, pinned, setPc, setEntry, firstWriter>>
    /\ IF ~index.present
       THEN /\ got' = Observed(FALSE)
            /\ UNCHANGED <<index, cacheFile>>
       ELSE IF now - index.ts > TTL
       THEN /\ got' = Observed(FALSE)
            /\ evict
       ELSE IF ~Parseable(cacheFile)
       THEN /\ got' = Observed(FALSE)
            /\ UNCHANGED <<index, cacheFile>>
       ELSE IF getFileHash(image) /= index.hash
       THEN /\ got' = Observed(FALSE)
            /\ evict
       ELSE /\ got' = Observed(TRUE)
            /\ UNCHANGED <<index, cacheFile>>

\* OptimizedCache.GetVisualStyleAnalysis: as above without the hash check
GetVisualStyleAnalysis ==
    /\ impl = "OptimizedCache"
    /\ UNCHANGED nonCacheVars
    /\ kind = "visual_style"
    /\ Idle
    /\ UNCHANGED <<impl, kind, image, now, pinned, setPc, setEntry, firstWriter>>
    /\ IF ~index.present
       THEN /\ got' = Observed(FALSE)
            /\ UNCHANGED <<index, cacheFile>>
       ELSE IF now - index.ts > TTL
       THEN /\ got' = Observed(FALSE)
            /\ evict
       ELSE /\ got' = Observed(Parseable(cacheFile))
            /\ UNCHANGED <<index, cacheFile>>

\* OptimizedCache.Set, run by one caller alone: the index is updated, then
\* the file is written over whatever is there
OptimizedSet(data, writeOk) ==
    /\ impl = "OptimizedCache"
    /\ UNCHANGED nonCacheVars
    /\ Idle
    /\ got' = NoGet
    /\ index' = [present |-> TRUE, ts |-> now, hash |-> getFileHash(image)]
    /\ cacheFile' = IF writeOk THEN CacheEntry(data) ELSE cacheFile
    /\ UNCHANGED <<impl, kind, image, now, pinned, setPc, setEntry, firstWriter>>

\* OptimizedCache.ClearType
OptimizedClearType(t) ==
    /\ impl = "OptimizedCache"
    /\ UNCHANGED nonCacheVars
    /\ Idle
    /\ got' = NoGet
    /\ pinned' = NoPin
    /\ IF index.present /\ t = kind
       THEN evict
       ELSE UNCHANGED <<index, cacheFile>>
    /\ UNCHANGED <<impl, kind, image, now, setPc, setEntry, firstWriter>>

\* OptimizedCache.Cleanup
Cleanup ==
    /\ impl = "OptimizedCache"
    /\ UNCHANGED nonCacheVars
    /\ Idle
    /\ got' = NoGet
    /\ IF index.present /\ now - index.ts > TTL
       THEN evict
       ELSE UNCHANGED <<index, cacheFile>>
    /\ UNCHANGED <<impl, kind, image, now, pinned, setPc, setEntry, firstWriter>>

\* NewOptimizedCache over the directory as it is: buildIndex
buildIndex ==
    /\ impl = "OptimizedCache"
    /\ UNCHANGED nonCacheVars
    /\ Idle
    /\ got' = NoGet
    /\ IF ~Parseable(cacheFile)
       THEN /\ index' = NoIndex
            /\ UNCHANGED cacheFile
       ELSE IF now - cacheFile.ts > TTL
       THEN evict
       ELSE /\ index' = [present |-> TRUE, ts |-> cacheFile.ts,
                         hash |-> cacheFile.hash]
            /\ UNCHANGED cacheFile
    /\ UNCHANGED <<impl, kind, image, now, pinned, setPc, setEntry, firstWriter>>

\* ---- the environment of the cache ----

\* a day passes
Tick ==
    /\ Idle
    /\ UNCHANGED nonCacheVars
    /\ now < MaxNow
    /\ now' = now + 1
    /\ got' = NoGet
    /\ UNCHANGED <<impl, kind, image, cacheFile, index, pinned,
                   setPc, setEntry, firstWriter>>

\* the bytes of the reference image are replaced (same name, <= 10 MiB)
ReplaceImage(c) ==
    /\ Idle
    /\ UNCHANGED nonCacheVars
    /\ c /= image
    /\ image' = c
    /\ got' = NoGet
    /\ pinned' = NoPin
    /\ UNCHANGED <<impl, kind, now, cacheFile, index, setPc, setEntry, firstWriter>>

\* a user edits the record inside the cache file and leaves it parseable
ExternalEdit(r) ==
    /\ Idle
    /\ UNCHANGED nonCacheVars
    /\ Parseable(cacheFile)
    /\ r /= cacheFile.data
    /\ cacheFile' = [cacheFile EXCEPT !.data = r, !.len = r]
    /\ pinned' = [data |-> r, ts |-> cacheFile.ts]
    /\ got' = NoGet
    /\ UNCHANGED <<impl, kind, image, now, index, setPc, setEntry, firstWriter>>

\* the cache file is left unparseable, as by an interrupted write
Corrupt ==
    /\ Idle
    /\ UNCHANGED nonCacheVars
    /\ cacheFile.state /= "absent"
    /\ cacheFile' = Garbage
    /\ pinned' = NoPin
    /\ got' = NoGet
    /\ UNCHANGED <<impl, kind, image, now, index, setPc, setEntry, firstWriter>>

\* ---- two callers inside Set at once ----

\* a caller enters Set with its record
SetCall(w, data) ==
    /\ setPc[w] = "idle"
    /\ UNCHANGED nonCacheVars
    /\ setPc' = [setPc EXCEPT ![w] = IF impl = "Cache" THEN "stat" ELSE "index"]
    /\ setEntry' = [setEntry EXCEPT ![w] = CacheEntry(data)]
    /\ UNCHANGED <<impl, kind, image, now, cacheFile, index, got, pinned, firstWriter>>

\* Cache.Set: os.Stat(cachePath); no lock is held
SetStat(w) ==
    /\ setPc[w] = "stat"
    /\ UNCHANGED nonCacheVars
    /\ setPc' = [setPc EXCEPT ![w] =
                    IF cacheFile.state /= "absent" THEN "done" ELSE "open"]
    /\ UNCHANGED <<impl, kind, image, now, cacheFile, index, got, pinned,
                   setEntry, firstWriter>>

\* OptimizedCache.Set: the index update, under c.mu
SetIndex(w) ==
    /\ setPc[w] = "index"
    /\ UNCHANGED nonCacheVars
    /\ index' = [present |-> TRUE, ts |-> setEntry[w].ts, hash |-> setEntry[w].hash]
    /\ setPc' = [setPc EXCEPT ![w] = "open"]
    /\ UNCHANGED <<impl, kind, image, now, cacheFile, got, pinned,
                   setEntry, firstWriter>>

\* os.WriteFile opens the file with O_TRUNC: it is empty until written
SetOpen(w) ==
    /\ setPc[w] = "open"
    /\ UNCHANGED nonCacheVars
    /\ cacheFile' = Garbage
    /\ setPc' = [setPc EXCEPT ![w] = "write"]
    /\ UNCHANGED <<impl, kind, image, now, index, got, pinned,
                   setEntry, firstWriter>>

\* os.WriteFile writes its bytes from offset 0: over a longer text that
\* another writer put there meanwhile, the tail of that text remains
SetWrite(w) ==
    /\ setPc[w] = "write"
    /\ UNCHANGED nonCacheVars
    /\ cacheFile' = IF cacheFile.len > setEntry[w].len
                    THEN [Garbage EXCEPT !.len = cacheFile.len]
                    ELSE setEntry[w]
    /\ firstWriter' = IF firstWriter = "none" THEN w ELSE firstWriter
    /\ setPc' = [setPc EXCEPT ![w] = "done"]
    /\ UNCHANGED <<impl, kind, image, now, index, got, pinned, setEntry>>

RaceNext ==
    \/ \E w \in Writers, r \in Records : SetCall(w, r)
    \/ \E w \in Writers : SetStat(w)
    \/ \E w \in Writers : SetIndex(w)
    \/ \E w \in Writers : SetOpen(w)
    \/ \E w \in Writers : SetWrite(w)


CacheInit ==
    /\ impl \in Impls
    /\ kind \in Kinds
    /\ image \in Contents
    /\ now = 0
    /\ cacheFile = NoFile
    /\ index = NoIndex
    /\ got = NoGet
    /\ pinned = NoPin
    /\ setPc = [w \in Writers |-> "idle"]
    /\ setEntry = [w \in Writers |-> NoFile]
    /\ firstWriter = "none"

CacheIdle ==
    /\ impl = "Cache"
    /\ kind = "outfit"
    /\ image = 1
    /\ now = 0
    /\ cacheFile = NoFile
    /\ index = NoIndex
    /\ got = NoGet
    /\ pinned = NoPin
    /\ setPc = [w \in Writers |-> "idle"]
    /\ setEntry = [w \in Writers |-> NoFile]
    /\ firstWriter = "none"

CacheNext ==
    \/ CacheGet
    \/ \E r \in Records, ok \in BOOLEAN : CacheSet(r, ok)
    \/ \E ok \in BOOLEAN, r \in Records, w \in BOOLEAN : AnalyzeImage(ok, r, w)
    \/ \E all \in BOOLEAN, t \in Kinds : CacheClear(all, t)
    \/ GetOutfitAnalysis
    \/ GetVisualStyleAnalysis
    \/ \E r \in Records, ok \in BOOLEAN : OptimizedSet(r, ok)
    \/ \E t \in Kinds : OptimizedClearType(t)
    \/ Cleanup
    \/ buildIndex
    \/ Tick
    \/ \E c \in Contents : ReplaceImage(c)
    \/ \E r \in Records : ExternalEdit(r)
    \/ Corrupt

(***************************************************************************)
(* Retrying HTTP client                                                    *)
(***************************************************************************)

Clients == {"OptimizedClient", "Client"}
Statuses == {200, 400, 404, 429, 500, 503}

\* what one httpClient.Do gives back: a transport error or a response
TransportError == [err |-> TRUE, status |-> 0]
Response(s) == [err |-> FALSE, status |-> s]
Outcomes == {TransportError} \cup {Response(s) : s \in Statuses}

NoResult == [kind |-> "none", status |-> 0]
Returned(k, s) == [kind |-> k, status |-> s]

\* same, without the cap
uncapped(a, b) == a

\* math.Min
minInt(a, b) == IF a < b THEN a ELSE b

\* for attempt := 0; attempt <= MaxRetries; ...
InLoop(a) == a <= maxRetries

\* errors.Wrapf(lastErr, errors.APIError, ...): nil when lastErr is nil
Wrapf(e) == IF e = "nil" THEN Returned("nil", 0) ELSE Returned("APIError", 0)

\* c.rateLimiter.Wait(ctx) at the head of an attempt; it fails only with
\* the error of a context that is done
RetryWait(ok) ==
    /\ client = "OptimizedClient"
    /\ retryPc = "wait"
    /\ ~ok => ctxDone
    /\ IF ok
         THEN /\ retryPc' = "do"
              /\ result' = result
         ELSE /\ retryPc' = "returned"
              /\ result' = Returned("APIError", 0)
    /\ UNCHANGED <<client, maxRetries, attempt, backoff, lastErr, calls,
                   outcomes, ctxDone>>
    /\ UNCHANGED nonRetryVars

\* same, with every 4xx sent down the retry path
NotServerFaultStrict(o) == ~o.err /\ o.status < 400

\* err == nil && resp.StatusCode < 500
NotServerFault(o) == ~o.err /\ o.status < 500

\* c.httpClient.Do(reqClone) and the classification of what came back
DoRequest(o) ==
    /\ client = "OptimizedClient"
    /\ retryPc = "do"
    /\ ctxDone => o.err
    /\ calls' = IF ctxDone THEN calls ELSE calls + 1
    /\ outcomes' = Append(outcomes, o)
    /\ IF NotServerFault(o) /\ o.status /= 429
         THEN /\ result' = Returned("resp", o.status)
              /\ retryPc' = "returned"
              /\ UNCHANGED <<backoff, lastErr>>
         ELSE /\ backoff' = IF NotServerFault(o) THEN MaxBackoff ELSE backoff
              /\ lastErr' = IF o.err THEN "transport" ELSE "server error"
              /\ IF attempt = maxRetries
                   THEN /\ result' = Wrapf(lastErr')
                        /\ retryPc' = "returned"
                   ELSE /\ result' = result
                        /\ retryPc' = "backoff"
    /\ UNCHANGED <<client, maxRetries, attempt, ctxDone>>
    /\ UNCHANGED nonRetryVars

\* same, with the loop variable left where it is
BackoffElapsedNoAdvance ==
    /\ client = "OptimizedClient"
    /\ retryPc = "backoff"
    /\ backoff' = minInt(backoff * BackoffFactor, MaxBackoff)
    /\ retryPc' = "wait"
    /\ UNCHANGED <<client, maxRetries, attempt, lastErr, calls, outcomes,
                   result, ctxDone>>
    /\ UNCHANGED nonRetryVars

\* case <-time.After(backoff), then attempt++ and the loop condition
BackoffElapsed ==
    /\ client = "OptimizedClient"
    /\ retryPc = "backoff"
    /\ backoff' = minInt(backoff * BackoffFactor, MaxBackoff)
    /\ attempt' = attempt + 1
    /\ IF InLoop(attempt')
         THEN /\ retryPc' = "wait"
              /\ result' = result
         ELSE /\ retryPc' = "returned"
              /\ result' = Wrapf(lastErr)
    /\ UNCHANGED <<client, maxRetries, lastErr, calls, outcomes, ctxDone>>
    /\ UNCHANGED nonRetryVars

\* case <-ctx.Done(): return nil, ctx.Err()
BackoffCancelled ==
    /\ client = "OptimizedClient"
    /\ retryPc = "backoff"
    /\ ctxDone
    /\ retryPc' = "returned"
    /\ result' = Returned("ctxErr", 0)
    /\ UNCHANGED <<client, maxRetries, attempt, backoff, lastErr, calls,
                   outcomes, ctxDone>>
    /\ UNCHANGED nonRetryVars

\* the caller cancels the request context
CancelRequest ==
    /\ client = "OptimizedClient"
    /\ retryPc /= "returned"
    /\ ~ctxDone
    /\ ctxDone' = TRUE
    /\ UNCHANGED <<client, maxRetries, attempt, backoff, lastErr, retryPc,
                   calls, outcomes, result>>
    /\ UNCHANGED nonRetryVars

\* gemini.Client.SendRequestRaw: one Do, an error for anything but a 200
\* with a parseable body
SendRequestRaw(o, parsed) ==
    /\ client = "Client"
    /\ retryPc = "wait"
    /\ calls' = calls + 1
    /\ outcomes' = Append(outcomes, o)
    /\ retryPc' = "returned"
    /\ result' = IF ~o.err /\ o.status = 200 /\ parsed
                   THEN Returned("resp", o.status)
                   ELSE Returned("error", 0)
    /\ UNCHANGED <<client, maxRetries, attempt, backoff, lastErr, ctxDone>>
    /\ UNCHANGED nonRetryVars

\* one request handed to a client; MaxRetries as the RetryConfig gives it
RetryInit ==
    /\ client \in Clients
    /\ maxRetries \in 0..MaxRetriesCap
    /\ attempt = 0
    /\ backoff = InitialBackoff
    /\ lastErr = "nil"
    /\ retryPc = "wait"
    /\ calls = 0
    /\ outcomes = << >>
    /\ result = NoResult
    /\ ctxDone = FALSE

RetryIdle ==
    /\ client = "OptimizedClient"
    /\ maxRetries = DefaultMaxRetries
    /\ attempt = 0
    /\ backoff = InitialBackoff
    /\ lastErr = "nil"
    /\ retryPc = "wait"
    /\ calls = 0
    /\ outcomes = << >>
    /\ result = NoResult
    /\ ctxDone = FALSE

RetryNext ==
    \/ \E ok \in BOOLEAN : RetryWait(ok)
    \/ \E o \in Outcomes : DoRequest(o)
    \/ BackoffElapsed
    \/ BackoffCancelled
    \/ CancelRequest
    \/ \E o \in Outcomes, parsed \in BOOLEAN : SendRequestRaw(o, parsed)

(***************************************************************************)
(* Rate limiter                                                            *)
(*                                                                         *)
(* Time runs in ticks, TicksPerInterval of them to one refill interval, so *)
(* that one second is rps * TicksPerInterval ticks.  Timestamps are kept   *)
(* as ages relative to the present tick.  An age that has reached one      *)
(* second is not counted further: from there on the refill fills the       *)
(* bucket whatever the exact age.                                          *)
(***************************************************************************)

Callers == {"a", "b"}
NoCaller == "none"

Second == rps * TicksPerInterval
MaxAge == MaxRate * TicksPerInterval

\* maxTokens: int(requestsPerSecond)
maxTokens == rps

\* same, with the cap on the bucket forgotten
RefillUncapped(t, add) == t + add

\* r.tokens = min(r.maxTokens, r.tokens+tokensToAdd)
Refill(t, add) == minInt(maxTokens, t + add)

\* tokensToAdd := int(elapsed / r.interval)
tokensToAdd == refillAge \div TicksPerInterval

TokensAfterRefill == IF tokensToAdd > 0 THEN Refill(tokens, tokensToAdd) ELSE tokens
AgeAfterRefill == IF tokensToAdd > 0 THEN 0 ELSE refillAge

Admit == [admitted EXCEPT ![0] = @ + 1]

\* Wait, from taking the mutex to its return or to the sleep it holds the
\* mutex through
Wait(c) ==
    /\ holder = NoCaller
    /\ refillAge' = AgeAfterRefill
    /\ IF TokensAfterRefill <= 0
         THEN /\ tokens' = TokensAfterRefill
              /\ holder' = c
              /\ sleepLeft' = TicksPerInterval
              /\ waitRet' = [waitRet EXCEPT ![c] = "none"]
              /\ UNCHANGED admitted
         ELSE /\ tokens' = TokensAfterRefill - 1
              /\ admitted' = Admit
              /\ waitRet' = [waitRet EXCEPT ![c] = "nil"]
              /\ UNCHANGED <<holder, sleepLeft>>
    /\ UNCHANGED <<rps, cancelled>>
    /\ UNCHANGED nonLimVars

\* case <-time.After(waitTime): tokens = 1, lastRefill = now; tokens--
WaitWake(c) ==
    /\ holder = c
    /\ sleepLeft = 0
    /\ tokens' = 1 - 1
    /\ refillAge' = 0
    /\ admitted' = Admit
    /\ waitRet' = [waitRet EXCEPT ![c] = "nil"]
    /\ holder' = NoCaller
    /\ UNCHANGED <<rps, sleepLeft, cancelled>>
    /\ UNCHANGED nonLimVars

\* case <-ctx.Done(): return ctx.Err()
WaitCancelled(c) ==
    /\ holder = c
    /\ cancelled[c]
    /\ waitRet' = [waitRet EXCEPT ![c] = "ctxErr"]
    /\ holder' = NoCaller
    /\ UNCHANGED <<rps, tokens, refillAge, sleepLeft, cancelled, admitted>>
    /\ UNCHANGED nonLimVars

\* the context a caller passes to Wait is cancelled
CancelCaller(c) ==
    /\ ~cancelled[c]
    /\ cancelled' = [cancelled EXCEPT ![c] = TRUE]
    /\ UNCHANGED <<rps, tokens, refillAge, holder, sleepLeft, admitted, waitRet>>
    /\ UNCHANGED nonLimVars

\* a caller that is not inside Wait comes back with a fresh context
NewRequest(c) ==
    /\ cancelled[c]
    /\ holder /= c
    /\ cancelled' = [cancelled EXCEPT ![c] = FALSE]
    /\ waitRet' = [waitRet EXCEPT ![c] = "none"]
    /\ UNCHANGED <<rps, tokens, refillAge, holder, sleepLeft, admitted>>
    /\ UNCHANGED nonLimVars

\* the clock advances by one tick; a timer may fire late
LimTick ==
    /\ refillAge' = minInt(refillAge + 1, Second)
    /\ sleepLeft' = IF sleepLeft > 0 THEN sleepLeft - 1 ELSE 0
    /\ admitted' = [a \in 0..MaxAge |->
                      IF a = 0 \/ a > Second THEN 0 ELSE admitted[a - 1]]
    /\ UNCHANGED <<rps, tokens, holder, cancelled, waitRet>>
    /\ UNCHANGED nonLimVars

\* NewRateLimiter(requestsPerSecond)
LimInit ==
    /\ rps \in 1..MaxRate
    /\ tokens = 1
    /\ refillAge = 0
    /\ holder = NoCaller
    /\ sleepLeft = 0
    /\ cancelled = [c \in Callers |-> FALSE]
    /\ admitted = [a \in 0..MaxAge |-> 0]
    /\ waitRet = [c \in Callers |-> "none"]

LimIdle ==
    /\ rps = 1
    /\ tokens = 1
    /\ refillAge = 0
    /\ holder = NoCaller
    /\ sleepLeft = 0
    /\ cancelled = [c \in Callers |-> FALSE]
    /\ admitted = [a \in 0..MaxAge |-> 0]
    /\ waitRet = [c \in Callers |-> "none"]

LimNext ==
    \/ \E c \in Callers : Wait(c)
    \/ \E c \in Callers : WaitWake(c)
    \/ \E c \in Callers : WaitCancelled(c)
    \/ \E c \in Callers : CancelCaller(c)
    \/ \E c \in Callers : NewRequest(c)
    \/ LimTick

(***************************************************************************)
(* Worker pool                                                             *)
(*                                                                         *)
(* A pool is driven either by ProcessBatch ("batch": its goroutine submits *)
(* every task and calls Wait, the caller ranges over Results) or by an     *)
(* owner that does the same and may call Shutdown meanwhile ("direct").    *)
(***************************************************************************)

PoolModes == {"batch", "direct"}
Workers == 1..MaxWorkers
TaskIds == 1..MaxTasks
NoPanic == "none"

\* NewWorkerPool: workers <= 0 becomes 1
poolSize(w) == IF w <= 0 THEN 1 ELSE w

\* ProcessBatch: workers limited to the number of tasks
batchWorkers(w, n) == IF w > n THEN n ELSE w

\* make(chan Task, workers*2), make(chan Result, workers*2)
chanCap == nWorkers * 2

Running(w) == w \in 1..nWorkers /\ wpc[w] /= "exit"
\* a wait that returns as soon as one worker has exited
WgAnyExited == \E w \in 1..nWorkers : wpc[w] = "exit"

\* p.wg.Wait() returns: every worker has called wg.Done
WgZero == \A w \in 1..nWorkers : wpc[w] = "exit"
CancelSeen == poolCtxDone \/ callerCtxDone

\* worker: case task, ok := <-p.taskQueue with a task in the queue
WorkerTake(w) ==
    /\ panicked = NoPanic
    /\ w \in 1..nWorkers
    /\ wpc[w] = "select"
    /\ taskQueue /= << >>
    /\ wtask' = [wtask EXCEPT ![w] = Head(taskQueue)]
    /\ taskQueue' = Tail(taskQueue)
    /\ wpc' = [wpc EXCEPT ![w] = "process"]
    /\ startedAfter' = IF CancelSeen THEN startedAfter \cup {Head(taskQueue)}
                                     ELSE startedAfter
    /\ UNCHANGED <<poolMode, nTasks, nWorkers, queueClosed, results,
                   resultsClosed, poolCtxDone, callerCtxDone, prodPc,
                   nextTask, shutPc, collected, collectorDone, panicked,
                   acceptedAfter, processed>>
    /\ UNCHANGED nonPoolVars

\* worker: the queue is closed and drained (!ok)
WorkerQueueClosed(w) ==
    /\ panicked = NoPanic
    /\ w \in 1..nWorkers
    /\ wpc[w] = "select"
    /\ taskQueue = << >>
    /\ queueClosed
    /\ wpc' = [wpc EXCEPT ![w] = "exit"]
    /\ UNCHANGED <<poolMode, nTasks, nWorkers, taskQueue, queueClosed,
                   results, resultsClosed, poolCtxDone, callerCtxDone, wtask,
                   prodPc, nextTask, shutPc, collected, collectorDone,
                   panicked, startedAfter, acceptedAfter, processed>>
    /\ UNCHANGED nonPoolVars

\* worker: case <-p.ctx.Done()
WorkerCtxDone(w) ==
    /\ panicked = NoPanic
    /\ w \in 1..nWorkers
    /\ wpc[w] = "select"
    /\ poolCtxDone
    /\ wpc' = [wpc EXCEPT ![w] = "exit"]
    /\ UNCHANGED <<poolMode, nTasks, nWorkers, taskQueue, queueClosed,
                   results, resultsClosed, poolCtxDone, callerCtxDone, wtask,
                   prodPc, nextTask, shutPc, collected, collectorDone,
                   panicked, startedAfter, acceptedAfter, processed>>
    /\ UNCHANGED nonPoolVars

\* worker: task.Process(p.ctx) returns
WorkerProcess(w) ==
    /\ panicked = NoPanic
    /\ w \in 1..nWorkers
    /\ wpc[w] = "process"
    /\ wpc' = [wpc EXCEPT ![w] = "send"]
    /\ processed' = processed \cup {wtask[w]}
    /\ UNCHANGED <<poolMode, nTasks, nWorkers, taskQueue, queueClosed,
                   results, resultsClosed, poolCtxDone, callerCtxDone, wtask,
                   prodPc, nextTask, shutPc, collected, collectorDone,
                   panicked, startedAfter, acceptedAfter>>
    /\ UNCHANGED nonPoolVars

\* worker: p.results <- Result{...}
WorkerSend(w) ==
    /\ panicked = NoPanic
    /\ w \in 1..nWorkers
    /\ wpc[w] = "send"
    /\ IF resultsClosed
         THEN /\ panicked' = "send on closed channel"
              /\ UNCHANGED <<results, wpc>>
         ELSE /\ Len(results) < chanCap
              /\ results' = Append(results, wtask[w])
              /\ wpc' = [wpc EXCEPT ![w] = "select"]
              /\ UNCHANGED panicked
    /\ UNCHANGED <<poolMode, nTasks, nWorkers, taskQueue, queueClosed,
                   resultsClosed, poolCtxDone, callerCtxDone, wtask, prodPc,
                   nextTask, shutPc, collected, collectorDone, startedAfter,
                   acceptedAfter, processed>>
    /\ UNCHANGED nonPoolVars

\* Submit: case p.taskQueue <- task
SubmitSend ==
    /\ panicked = NoPanic
    /\ prodPc = "submit"
    /\ nextTask <= nTasks
    /\ IF queueClosed
         THEN /\ panicked' = "send on closed channel"
              /\ UNCHANGED <<taskQueue, nextTask, acceptedAfter>>
         ELSE /\ Len(taskQueue) < chanCap
              /\ taskQueue' = Append(taskQueue, nextTask)
              /\ nextTask' = nextTask + 1
              /\ acceptedAfter' = IF CancelSeen
                                    THEN acceptedAfter \cup {nextTask}
                                    ELSE acceptedAfter
              /\ UNCHANGED panicked
    /\ UNCHANGED <<poolMode, nTasks, nWorkers, queueClosed, results,
                   resultsClosed, poolCtxDone, callerCtxDone, wpc, wtask,
                   prodPc, shutPc, collected, collectorDone, startedAfter,
                   processed>>
    /\ UNCHANGED nonPoolVars

\* Submit: case <-p.ctx.Done(), the task is dropped
SubmitCtxDone ==
    /\ panicked = NoPanic
    /\ prodPc = "submit"
    /\ nextTask <= nTasks
    /\ poolCtxDone
    /\ nextTask' = nextTask + 1
    /\ UNCHANGED <<poolMode, nTasks, nWorkers, taskQueue, queueClosed,
                   results, resultsClosed, poolCtxDone, callerCtxDone, wpc,
                   wtask, prodPc, shutPc, collected, collectorDone, panicked,
                   startedAfter, acceptedAfter, processed>>
    /\ UNCHANGED nonPoolVars

\* Wait: close(p.taskQueue)
WaitCloseQueue ==
    /\ panicked = NoPanic
    /\ prodPc = "submit"
    /\ nextTask > nTasks
    /\ IF queueClosed
         THEN /\ panicked' = "close of closed channel"
              /\ UNCHANGED <<queueClosed, prodPc>>
         ELSE /\ queueClosed' = TRUE
              /\ prodPc' = "wgWait"
              /\ UNCHANGED panicked
    /\ UNCHANGED <<poolMode, nTasks, nWorkers, taskQueue, results,
                   resultsClosed, poolCtxDone, callerCtxDone, wpc, wtask,
                   nextTask, shutPc, collected, collectorDone, startedAfter,
                   acceptedAfter, processed>>
    /\ UNCHANGED nonPoolVars

\* Wait: p.wg.Wait(); close(p.results)
WaitCloseResults ==
    /\ panicked = NoPanic
    /\ prodPc = "wgWait"
    /\ WgZero
    /\ IF resultsClosed
         THEN /\ panicked' = "close of closed channel"
              /\ UNCHANGED <<resultsClosed, prodPc>>
         ELSE /\ resultsClosed' = TRUE
              /\ prodPc' = "done"
              /\ UNCHANGED panicked
    /\ UNCHANGED <<poolMode, nTasks, nWorkers, taskQueue, queueClosed,
                   results, poolCtxDone, callerCtxDone, wpc, wtask, nextTask,
                   shutPc, collected, collectorDone, startedAfter,
                   acceptedAfter, processed>>
    /\ UNCHANGED nonPoolVars

\* Shutdown: p.cancel()
ShutdownCancel ==
    /\ panicked = NoPanic
    /\ poolMode = "direct"
    /\ shutPc = "idle"
    /\ poolCtxDone' = TRUE
    /\ shutPc' = "closeQueue"
    /\ UNCHANGED <<poolMode, nTasks, nWorkers, taskQueue, queueClosed,
                   results, resultsClosed, callerCtxDone, wpc, wtask, prodPc,
                   nextTask, collected, collectorDone, panicked,
                   startedAfter, acceptedAfter, processed>>
    /\ UNCHANGED nonPoolVars

\* Shutdown: close(p.taskQueue)
ShutdownCloseQueue ==
    /\ panicked = NoPanic
    /\ shutPc = "closeQueue"
    /\ IF queueClosed
         THEN /\ panicked' = "close of closed channel"
              /\ UNCHANGED <<queueClosed, shutPc>>
         ELSE /\ queueClosed' = TRUE
              /\ shutPc' = "wgWait"
              /\ UNCHANGED panicked
    /\ UNCHANGED <<poolMode, nTasks, nWorkers, taskQueue, results,
                   resultsClosed, poolCtxDone, callerCtxDone, wpc, wtask,
                   prodPc, nextTask, collected, collectorDone, startedAfter,
                   acceptedAfter, processed>>
    /\ UNCHANGED nonPoolVars

\* Shutdown: p.wg.Wait(); close(p.results)
ShutdownCloseResults ==
    /\ panicked = NoPanic
    /\ shutPc = "wgWait"
    /\ WgZero
    /\ IF resultsClosed
         THEN /\ panicked' = "close of closed channel"
              /\ UNCHANGED <<resultsClosed, shutPc>>
         ELSE /\ resultsClosed' = TRUE
              /\ shutPc' = "done"
              /\ UNCHANGED panicked
    /\ UNCHANGED <<poolMode, nTasks, nWorkers, taskQueue, queueClosed,
                   results, poolCtxDone, callerCtxDone, wpc, wtask, prodPc,
                   nextTask, collected, collectorDone, startedAfter,
                   acceptedAfter, processed>>
    /\ UNCHANGED nonPoolVars

\* the caller of ProcessBatch cancels the context it passed
CancelBatch ==
    /\ panicked = NoPanic
    /\ poolMode = "batch"
    /\ ~callerCtxDone
    /\ ~collectorDone
    /\ callerCtxDone' = TRUE
    /\ UNCHANGED <<poolMode, nTasks, nWorkers, taskQueue, queueClosed,
                   results, resultsClosed, poolCtxDone, wpc, wtask, prodPc,
                   nextTask, shutPc, collected, collectorDone, panicked,
                   startedAfter, acceptedAfter, processed>>
    /\ UNCHANGED nonPoolVars

\* for result := range pool.Results(): one result received
Collect ==
    /\ panicked = NoPanic
    /\ ~collectorDone
    /\ results /= << >>
    /\ collected' = Append(collected, Head(results))
    /\ results' = Tail(results)
    /\ UNCHANGED <<poolMode, nTasks, nWorkers, taskQueue, queueClosed,
                   resultsClosed, poolCtxDone, callerCtxDone, wpc, wtask,
                   prodPc, nextTask, shutPc, collectorDone, panicked,
                   startedAfter, acceptedAfter, processed>>
    /\ UNCHANGED nonPoolVars

\* the range ends: the channel is closed and drained
CollectEnd ==
    /\ panicked = NoPanic
    /\ ~collectorDone
    /\ results = << >>
    /\ resultsClosed
    /\ collectorDone' = TRUE
    /\ UNCHANGED <<poolMode, nTasks, nWorkers, taskQueue, queueClosed,
                   results, resultsClosed, poolCtxDone, callerCtxDone, wpc,
                   wtask, prodPc, nextTask, shutPc, collected, panicked,
                   startedAfter, acceptedAfter, processed>>
    /\ UNCHANGED nonPoolVars

\* a pool of `size` workers started for n tasks, nothing submitted yet
PoolStarted(mode, n, size) ==
    /\ poolMode = mode
    /\ nTasks = n
    /\ nWorkers = size
    /\ taskQueue = << >>
    /\ queueClosed = FALSE
    /\ results = << >>
    /\ resultsClosed = FALSE
    /\ poolCtxDone = FALSE
    /\ callerCtxDone = FALSE
    /\ wpc = [w \in Workers |-> IF w <= size THEN "select" ELSE "none"]
    /\ wtask = [w \in Workers |-> 0]
    /\ prodPc = "submit"
    /\ nextTask = 1
    /\ shutPc = "idle"
    /\ collected = << >>
    /\ collectorDone = FALSE
    /\ panicked = NoPanic
    /\ startedAfter = {}
    /\ acceptedAfter = {}
    /\ processed = {}

\* ProcessBatch(ctx, tasks, workers), or NewWorkerPool(workers) and Start
PoolInit ==
    \E mode \in PoolModes, n \in 1..MaxTasks, w \in 0..MaxWorkers :
        PoolStarted(mode, n,
                    IF mode = "batch" THEN poolSize(batchWorkers(w, n))
                                      ELSE poolSize(w))

PoolIdle == PoolStarted("batch", 1, 1)

PoolNext ==
    \/ \E w \in Workers : WorkerTake(w)
    \/ \E w \in Workers : WorkerQueueClosed(w)
    \/ \E w \in Workers : WorkerCtxDone(w)
    \/ \E w \in Workers : WorkerProcess(w)
    \/ \E w \in Workers : WorkerSend(w)
    \/ SubmitSend
    \/ SubmitCtxDone
    \/ WaitCloseQueue
    \/ WaitCloseResults
    \/ ShutdownCancel
    \/ ShutdownCloseQueue
    \/ ShutdownCloseResults
    \/ CancelBatch
    \/ Collect
    \/ CollectEnd

\* ProcessBatch with an empty task list returns nil before any pool is made
BatchEmpty ==
    /\ poolMode = "batch"
    /\ nTasks = 0
    /\ nWorkers = 0
    /\ taskQueue = << >>
    /\ queueClosed = FALSE
    /\ results = << >>
    /\ resultsClosed = FALSE
    /\ poolCtxDone = FALSE
    /\ callerCtxDone = FALSE
    /\ wpc = [w \in Workers |-> "none"]
    /\ wtask = [w \in Workers |-> 0]
    /\ prodPc = "done"
    /\ nextTask = 1
    /\ shutPc = "idle"
    /\ collected = << >>
    /\ collectorDone = TRUE
    /\ panicked = NoPanic
    /\ startedAfter = {}
    /\ acceptedAfter = {}
    /\ processed = {}

\* ProcessBatch(ctx, tasks, workers) for any task list and worker count
BatchInit ==
    \/ BatchEmpty
    \/ \E n \in 1..MaxTasks, w \in -1..MaxWorkers :
           PoolStarted("batch", n, poolSize(batchWorkers(w, n)))

\* the goroutines of one ProcessBatch call: the workers, the submitting
\* goroutine and the collecting caller.  Nothing in ProcessBatch calls
\* Shutdown or p.cancel, so the pool's own context is never done.
BatchNext ==
    \/ \E w \in Workers : WorkerTake(w)
    \/ \E w \in Workers : WorkerQueueClosed(w)
    \/ \E w \in Workers : WorkerProcess(w)
    \/ \E w \in Workers : WorkerSend(w)
    \/ SubmitSend
    \/ WaitCloseQueue
    \/ WaitCloseResults
    \/ CancelBatch
    \/ Collect
    \/ CollectEnd

\* every goroutine that can take a step eventually takes one, and every
\* task's Process returns
BatchFairness ==
    /\ \A w \in Workers :
          /\ WF_vars(WorkerTake(w))
          /\ WF_vars(WorkerQueueClosed(w))
          /\ WF_vars(WorkerProcess(w))
          /\ WF_vars(WorkerSend(w))
    /\ WF_vars(SubmitSend)
    /\ WF_vars(WaitCloseQueue)
    /\ WF_vars(WaitCloseResults)
    /\ WF_vars(Collect)
    /\ WF_vars(CollectEnd)

(***************************************************************************)
(* Requests of several callers through one client                          *)
(*                                                                         *)
(* Each caller runs DoWithRetry once; all share the client's rate limiter. *)
(* The time that has passed since the last refill is left open: a refill   *)
(* may add any number of tokens, and a timer fires at some later step.     *)
(***************************************************************************)

ErrorResults == {"APIError", "ctxErr"}

\* same, with the request sent without the caller's context
Unbound(c) == FALSE

\* reqClone := req.Clone(ctx): a round trip whose context is done is
\* refused by the transport before anything is sent
Bound(c) == cancelled[c]

\* DoWithRetry reaches c.rateLimiter.Wait(ctx) and gets the mutex; the
\* refill adds `add` tokens
ReqLock(c, add) ==
    /\ reqPc[c] = "lock"
    /\ holder = NoCaller
    /\ add <= maxTokens
    /\ LET t == IF add > 0 THEN Refill(tokens, add) ELSE tokens
       IN  IF t <= 0
             THEN /\ tokens' = t
                  /\ holder' = c
                  /\ reqPc' = [reqPc EXCEPT ![c] = "sleep"]
             ELSE /\ tokens' = t - 1
                  /\ holder' = holder
                  /\ reqPc' = [reqPc EXCEPT ![c] = "do"]
    /\ UNCHANGED <<rps, refillAge, sleepLeft, cancelled, admitted, waitRet>>
    /\ UNCHANGED <<reqAttempt, reqResult, sent>>
    /\ UNCHANGED nonClientVars

\* Wait: case <-time.After(waitTime)
ReqWaitTimer(c) ==
    /\ reqPc[c] = "sleep"
    /\ holder = c
    /\ tokens' = 1 - 1
    /\ holder' = NoCaller
    /\ reqPc' = [reqPc EXCEPT ![c] = "do"]
    /\ UNCHANGED <<rps, refillAge, sleepLeft, cancelled, admitted, waitRet>>
    /\ UNCHANGED <<reqAttempt, reqResult, sent>>
    /\ UNCHANGED nonClientVars

\* Wait: case <-ctx.Done(); DoWithRetry wraps the error and returns
ReqWaitCancelled(c) ==
    /\ reqPc[c] = "sleep"
    /\ holder = c
    /\ cancelled[c]
    /\ holder' = NoCaller
    /\ reqPc' = [reqPc EXCEPT ![c] = "returned"]
    /\ reqResult' = [reqResult EXCEPT ![c] = "APIError"]
    /\ UNCHANGED <<rps, tokens, refillAge, sleepLeft, cancelled, admitted,
                   waitRet>>
    /\ UNCHANGED <<reqAttempt, sent>>
    /\ UNCHANGED nonClientVars

\* c.httpClient.Do(reqClone) and what DoWithRetry makes of the outcome
ReqDo(c, o) ==
    /\ reqPc[c] = "do"
    /\ Bound(c) => o = TransportError
    /\ sent' = IF Bound(c) THEN sent ELSE [sent EXCEPT ![c] = @ + 1]
    /\ IF NotServerFault(o) /\ o.status /= 429
         THEN /\ reqPc' = [reqPc EXCEPT ![c] = "returned"]
              /\ reqResult' = [reqResult EXCEPT ![c] = "resp"]
         ELSE IF reqAttempt[c] = maxRetries
                THEN /\ reqPc' = [reqPc EXCEPT ![c] = "returned"]
                     /\ reqResult' = [reqResult EXCEPT ![c] = "APIError"]
                ELSE /\ reqPc' = [reqPc EXCEPT ![c] = "backoff"]
                     /\ reqResult' = reqResult
    /\ UNCHANGED limVars
    /\ UNCHANGED reqAttempt
    /\ UNCHANGED nonClientVars

\* DoWithRetry: case <-time.After(backoff), attempt++
ReqBackoffTimer(c) ==
    /\ reqPc[c] = "backoff"
    /\ reqAttempt' = [reqAttempt EXCEPT ![c] = @ + 1]
    /\ reqPc' = [reqPc EXCEPT ![c] = "lock"]
    /\ UNCHANGED limVars
    /\ UNCHANGED <<reqResult, sent>>
    /\ UNCHANGED nonClientVars

\* DoWithRetry: case <-ctx.Done()
ReqBackoffCancelled(c) ==
    /\ reqPc[c] = "backoff"
    /\ cancelled[c]
    /\ reqPc' = [reqPc EXCEPT ![c] = "returned"]
    /\ reqResult' = [reqResult EXCEPT ![c] = "ctxErr"]
    /\ UNCHANGED limVars
    /\ UNCHANGED <<reqAttempt, sent>>
    /\ UNCHANGED nonClientVars

\* the context of a caller's request is cancelled
ReqCancel(c) ==
    /\ reqPc[c] /= "returned"
    /\ ~cancelled[c]
    /\ cancelled' = [cancelled EXCEPT ![c] = TRUE]
    /\ UNCHANGED <<rps, tokens, refillAge, holder, sleepLeft, admitted, waitRet>>
    /\ UNCHANGED <<reqPc, reqAttempt, reqResult, sent>>
    /\ UNCHANGED nonClientVars

\* every caller has called DoWithRetry and stands before its first Wait
ClientInit ==
    /\ reqPc = [c \in Callers |-> "lock"]
    /\ reqAttempt = [c \in Callers |-> 0]
    /\ reqResult = [c \in Callers |-> "none"]
    /\ sent = [c \in Callers |-> 0]

ClientIdle == ClientInit

ClientNext ==
    \/ \E c \in Callers, add \in 0..MaxRate : ReqLock(c, add)
    \/ \E c \in Callers : ReqWaitTimer(c)
    \/ \E c \in Callers : ReqWaitCancelled(c)
    \/ \E c \in Callers, o \in Outcomes : ReqDo(c, o)
    \/ \E c \in Callers : ReqBackoffTimer(c)
    \/ \E c \in Callers : ReqBackoffCancelled(c)
    \/ \E c \in Callers : ReqCancel(c)

\* the scheduler runs every goroutine that can run, timers fire, and a
\* goroutine waiting for the mutex gets it (sync.Mutex hands a starving
\* waiter the lock)
ClientFairness ==
    \A c \in Callers :
        /\ SF_vars(\E add \in 0..MaxRate : ReqLock(c, add))
        /\ WF_vars(ReqWaitTimer(c))
        /\ WF_vars(\E o \in Outcomes : ReqDo(c, o))
        /\ WF_vars(ReqBackoffTimer(c))

(***************************************************************************)
(* Reference resolution: src/unnamed/part_006,                             *)
(* src/pkg/workflow/outfit_helpers.go                                      *)
(***************************************************************************)

\* the component inputs in the order runOutfitSwapModularWorkflow resolves
\* them
ResolveOrder == <<"outfit", "style", "hair-style", "hair-color", "makeup",
                  "expression", "accessories", "over-outfit">>

\* what a user can give for one component: nothing, the path of an existing
\* file, the path of an existing directory holding some image files, a path
\* nothing exists at, or free text. `dotted` says whether the string holds a
\* path separator or a dot.
Inputs ==
    {[kind |-> "nothing", path |-> "", dotted |-> FALSE, images |-> 0]}
    \cup {[kind |-> "file", path |-> p[1], dotted |-> p[2], images |-> 0] :
             p \in {<<"ref.png", TRUE>>, <<"ref", FALSE>>}}
    \cup {[kind |-> "directory", path |-> p[1], dotted |-> p[2], images |-> n] :
             p \in {<<"refs/", TRUE>>, <<"refs", FALSE>>}, n \in 0..MaxDirImages}
    \cup {[kind |-> "missing", path |-> "gone.png", dotted |-> TRUE, images |-> 0]}
    \cup {[kind |-> "text", path |-> p[1], dotted |-> p[2], images |-> 0] :
             p \in {<<"red dress", FALSE>>, <<"dress no. 5", TRUE>>}}

NoInput == [kind |-> "none", path |-> "", dotted |-> FALSE, images |-> 0]

\* os.Stat of the string
Stat(in) ==
    CASE in.kind = "file" -> "file"
      [] in.kind = "directory" -> "dir"
      [] OTHER -> "not exist"

Files(fs) == [files |-> fs, err |-> FALSE]
Failed == [files |-> <<>>, err |-> TRUE]

\* gemini.GetImagesFromDirectory: the image files of the directory
GetImagesFromDirectory(in) ==
    [i \in 1..in.images |-> in.path \o "/" \o ToString(i) \o ".png"]

\* isFilePath: the string looks like a path and something exists there
isFilePath(in) == in.path /= "" /\ in.dotted /\ Stat(in) /= "not exist"

collectImageFiles(in) ==
    IF in.path = "" THEN Files(<<"">>)
    ELSE IF Stat(in) = "not exist" THEN Failed
    ELSE IF Stat(in) = "file" THEN Files(<<in.path>>)
    ELSE IF in.images = 0 THEN Failed
    ELSE Files(GetImagesFromDirectory(in))

\* the tail collectFilesForComponent shares between style and the other
\* components: a directory gives its image files, a file gives itself
FileOrDirectory(in) ==
    IF Stat(in) = "dir"
        THEN IF collectImageFiles(in).err \/ Len(collectImageFiles(in).files) = 0
                THEN Failed
                ELSE collectImageFiles(in)
        ELSE Files(<<in.path>>)

collectFilesForComponent(in, componentType) ==
    IF in.path = "" THEN Files(<<>>)
    ELSE IF componentType \in {"style", "visual_style"}
        THEN IF Stat(in) = "not exist" THEN Failed ELSE FileOrDirectory(in)
    ELSE IF ~isFilePath(in) THEN Files(<<in.path>>)
    ELSE FileOrDirectory(in)

\* same, with an empty list left empty
leaveEmpty(list) == list

\* ensureAtLeastOne, on the list itself
atLeastOne(list) == IF Len(list) = 0 THEN <<"">> ELSE list

\* runOutfitSwapModularWorkflow resolves its next component input and
\* returns the error if there is one; the sweep loops over
\* ensureAtLeastOne of the list it got
ResolveSlot(in) ==
    /\ UNCHANGED nonResVars
    /\ resolved < Len(ResolveOrder)
    /\ ~resErr
    /\ LET slot == ResolveOrder[resolved + 1]
           r == collectFilesForComponent(in, slot)
       IN  /\ resSlot' = slot
           /\ resInput' = in
           /\ resFiles' = r.files
           /\ resErr' = r.err
           /\ resLoop' = IF r.err THEN <<>> ELSE atLeastOne(r.files)
           /\ resolved' = IF r.err THEN resolved ELSE resolved + 1

ResInit ==
    /\ resolved = 0
    /\ resSlot = ""
    /\ resInput = NoInput
    /\ resFiles = <<>>
    /\ resErr = FALSE
    /\ resLoop = <<>>

ResIdle == ResInit

ResNext == \E in \in Inputs : ResolveSlot(in)


(***************************************************************************)
(* Composition of the directive: src/unnamed/part_008                      *)
(***************************************************************************)

\* garments an outfit analysis lists, in the order it lists them
Wardrobes == {<<>>, <<"jacket">>, <<"t-shirt", "jeans">>,
              <<"jacket", "t-shirt", "jeans">>, <<"shirt", "coat">>,
              <<"dress">>}

\* what a run gives for the outfit or the over-outfit: nothing, free text,
\* or an image whose analysis lists the garments of `clothing`
NoRef == [kind |-> "none", text |-> "", clothing |-> <<>>]
Refs ==
    {NoRef}
    \cup {[kind |-> "text", text |-> t, clothing |-> <<>>] :
             t \in {"a red dress", "a denim jacket"}}
    \cup {[kind |-> "image", text |-> "", clothing |-> w] : w \in Wardrobes}

\* a component that is not set
Nil == [set |-> FALSE, Type |-> "", Description |-> <<>>]
ComponentData(type, desc) == [set |-> TRUE, Type |-> type, Description |-> desc]

\* extractOutfitDescription: the garments of the analysis, "Standard outfit"
\* when it lists none
extractOutfitDescription(data) ==
    IF Len(data) > 0 THEN data ELSE <<"Standard outfit">>

\* the garment types the outer-layer extraction keeps
OuterTypes == {"jacket", "coat", "overcoat", "blazer", "cardigan", "bomber",
               "trench", "parka", "vest", "shawl", "cape"}

IsOuter(g) == g \in OuterTypes

\* extractOuterLayerOnly: the garments of an outer type; empty when there
\* is none
extractOuterLayerOnly(data) == SelectSeq(data, IsOuter)

\* a style is given as an image; its analysis describes the framing
NoStyle == [kind |-> "none", description |-> <<>>]
StyleRefs ==
    {NoStyle}
    \cup {[kind |-> "image", description |-> d] :
             d \in {<<"studio portrait", "soft light">>,
                    <<"first-person", "hands on a steering wheel">>}}

\* an expression is given as free text or as an image whose analysis names
\* an emotion, possibly a gaze direction, and an overall description
NoExpression == [kind |-> "none", text |-> "", primary_emotion |-> "",
                 gaze |-> "", overall |-> <<>>]
ExpressionRefs ==
    {NoExpression}
    \cup {[kind |-> "text", text |-> t, primary_emotion |-> "", gaze |-> "",
           overall |-> <<>>] :
             t \in {"a soft smile", "smiling, looking at the camera"}}
    \cup {[kind |-> "image", text |-> "", primary_emotion |-> "joy", gaze |-> g,
           overall |-> o] :
             g \in {"", "at camera"},
             o \in {<<"a wide smile">>,
                    <<"a wide smile", "gazing directly at the camera">>,
                    <<"a wide smile", "staring straight into the lens">>}}

\* the phrases extractExpressionDescription removes from `overall`
RemovedPhrases == {"with the gaze directly engaging the viewer in this moment of astonishment",
                   "with the gaze directly engaging the viewer",
                   "gazing directly at the camera",
                   "looking directly at the viewer",
                   "eyes locked on the camera"}

NotRemoved(phrase) == phrase \notin RemovedPhrases

\* extractExpressionDescription(data, excludeGaze)
extractExpressionDescription(data, excludeGaze) ==
    <<"Primary emotion: " \o data.primary_emotion>>
    \o (IF ~excludeGaze /\ data.gaze /= "" THEN <<"Gaze: " \o data.gaze>> ELSE <<>>)
    \o (IF excludeGaze THEN SelectSeq(data.overall, NotRemoved) ELSE data.overall)

\* components.Expression as analyzeModularComponents sets it
ExpressionComponent(expression, style) ==
    IF expression.kind = "none" THEN Nil
    ELSE IF expression.kind = "text"
        THEN ComponentData("expression", <<expression.text>>)
    ELSE ComponentData("expression",
            extractExpressionDescription(expression, style.kind /= "none"))

\* components.Style as analyzeModularComponents sets it
StyleComponent(style) ==
    IF style.kind = "none" THEN Nil
    ELSE ComponentData("visual_style", style.description)

\* components.HairStyle and components.HairColor
HairComponent(type, given) ==
    IF given THEN ComponentData(type, <<"as in the reference">>) ELSE Nil

\* components.Outfit as analyzeModularComponents sets it
OutfitComponent(outfit, over) ==
    IF outfit.kind = "none" THEN Nil
    ELSE IF outfit.kind = "text" THEN ComponentData("outfit", <<outfit.text>>)
    ELSE IF over.kind /= "none"
        THEN IF extractOuterLayerOnly(outfit.clothing) = <<>>
                THEN Nil
                ELSE ComponentData("outfit", extractOuterLayerOnly(outfit.clothing))
        ELSE ComponentData("outfit", extractOutfitDescription(outfit.clothing))

\* components.OverOutfit as analyzeModularComponents sets it
OverOutfitComponent(over) ==
    IF over.kind = "none" THEN Nil
    ELSE IF over.kind = "text" THEN ComponentData("over_outfit", <<over.text>>)
    ELSE ComponentData("over_outfit", extractOutfitDescription(over.clothing))

\* analyzeModularComponents, the outfit and the over-outfit: a failed
\* analysis of an image ends the composition with its error
analyzeModularComponents(okOutfit, okOverOutfit, okOthers) ==
    /\ UNCHANGED nonCompVars
    /\ compPc = "config"
    /\ IF \/ cfgOutfit.kind = "image" /\ ~okOutfit
          \/ cfgOverOutfit.kind = "image" /\ ~okOverOutfit
          \/ /\ ~okOthers
             /\ \/ cfgStyle.kind = "image"
                \/ cfgExpression.kind = "image"
                \/ cfgHairStyle
                \/ cfgHairColor
         THEN /\ compPc' = "failed"
              /\ UNCHANGED components
         ELSE /\ compPc' = "analysed"
              /\ components' = [Outfit |-> OutfitComponent(cfgOutfit, cfgOverOutfit),
                                OverOutfit |-> OverOutfitComponent(cfgOverOutfit),
                                Style |-> StyleComponent(cfgStyle),
                                HairStyle |-> HairComponent("hair_style", cfgHairStyle),
                                HairColor |-> HairComponent("hair_color", cfgHairColor),
                                Expression |-> ExpressionComponent(cfgExpression, cfgStyle)]
    /\ UNCHANGED <<cfgOutfit, cfgOverOutfit, prompt, cfgStyle, cfgExpression,
                   cfgHairStyle, cfgHairColor, sections>>

Part(heading, desc) == [heading |-> heading, description |-> desc]

\* same, with the over-outfit left out whenever the outfit is set
OutfitSectionSingle(c) ==
    IF c.Outfit.set
        THEN <<Part("OUTFIT:", c.Outfit.Description)>>
    ELSE IF c.OverOutfit.set
        THEN <<Part("OUTFIT:", c.OverOutfit.Description)>>
    ELSE << >>

\* the outfit section of buildModularPrompt: its headings, each with the
\* description put under it
OutfitSection(c) ==
    IF c.Outfit.set /\ c.OverOutfit.set
        THEN <<Part("COMPLETE BASE OUTFIT (all clothing worn underneath):",
                    c.OverOutfit.Description),
               Part("OUTER LAYER ONLY (jacket/coat worn over the base outfit):",
                    c.Outfit.Description)>>
    ELSE IF c.Outfit.set
        THEN <<Part("OUTFIT:", c.Outfit.Description)>>
    ELSE IF c.OverOutfit.set
        THEN <<Part("OUTFIT:", c.OverOutfit.Description)>>
    ELSE << >>

\* the substrings of a style description that make the shot a POV shot
POVMarkers == {"first-person", "first person", "pov",
               "extreme close-up on the subject's hands"}

isPOV(c) ==
    c.Style.set /\ \E i \in 1..Len(c.Style.Description) :
                      c.Style.Description[i] \in POVMarkers

\* the block that sets the framing
FramingBlock(c) ==
    IF isPOV(c) THEN "THIS IS A FIRST-PERSON POV SHOT"
    ELSE IF c.Style.set THEN "Generate an image of THIS EXACT PERSON with the framing described below"
    ELSE "Generate a professional 9:16 portrait photograph"

PreserveHairColor ==
    Part("CRITICAL HAIR COLOR PRESERVATION",
         <<"DO NOT CHANGE THE SUBJECT'S HAIR COLOR! The subject's original hair color from the source portrait MUST be preserved EXACTLY.">>)

\* same, with the clauses on the original hair color left out
HairSectionPlain(c) ==
    (IF c.HairStyle.set
       THEN <<Part("HAIR STYLE (STRUCTURE/CUT/SHAPE ONLY - NOT COLOR):",
                   c.HairStyle.Description)>>
       ELSE << >>)
    \o (IF c.HairColor.set
          THEN <<Part("HAIR COLOR:", c.HairColor.Description)>>
          ELSE << >>)

\* the hair sections of buildModularPrompt
HairSection(c) ==
    (IF c.HairStyle.set
       THEN (IF ~c.HairColor.set THEN <<PreserveHairColor>> ELSE << >>)
            \o <<Part("HAIR STYLE (STRUCTURE/CUT/SHAPE ONLY - NOT COLOR):",
                      c.HairStyle.Description)>>
            \o (IF ~c.HairColor.set
                  THEN <<Part("REMINDER",
                              <<"DO NOT change the hair color - keep the subject's ORIGINAL hair color from the source image.">>)>>
                  ELSE << >>)
       ELSE << >>)
    \o (IF c.HairColor.set
          THEN <<Part("HAIR COLOR:", c.HairColor.Description)>>
          ELSE << >>)

\* the expression section
ExpressionSection(c) ==
    IF c.Expression.set
      THEN <<Part("FACIAL EXPRESSION (EMOTION ONLY - NOT GAZE DIRECTION):",
                  c.Expression.Description)>>
      ELSE << >>

\* the style section, put last
StyleSection(c) ==
    IF c.Style.set
      THEN <<Part("RECREATE THIS EXACT COMPOSITION:", c.Style.Description)>>
      ELSE << >>

\* the hair line of TECHNICAL REQUIREMENTS
TechnicalRequirements(c) ==
    IF c.HairStyle.set /\ ~c.HairColor.set
      THEN <<"CRITICAL: PRESERVE the subject's ORIGINAL HAIR COLOR exactly as shown in the source portrait">>
      ELSE << >>

buildModularPrompt ==
    /\ UNCHANGED nonCompVars
    /\ compPc = "analysed"
    /\ compPc' = "prompted"
    /\ prompt' = OutfitSection(components)
    /\ sections' = [framing |-> FramingBlock(components),
                    hair |-> HairSection(components),
                    expression |-> ExpressionSection(components),
                    style |-> StyleSection(components),
                    technical |-> TechnicalRequirements(components)]
    /\ UNCHANGED <<cfgOutfit, cfgOverOutfit, components, cfgStyle,
                   cfgExpression, cfgHairStyle, cfgHairColor>>

NoComponents == [Outfit |-> Nil, OverOutfit |-> Nil, Style |-> Nil,
                 HairStyle |-> Nil, HairColor |-> Nil, Expression |-> Nil]

NoSections == [framing |-> "", hair |-> << >>, expression |-> << >>,
               style |-> << >>, technical |-> << >>]

\* one combination of a sweep; at most MaxComponents of its components are
\* given
CompInit ==
    /\ cfgOutfit \in Refs
    /\ cfgOverOutfit \in Refs
    /\ cfgStyle \in StyleRefs
    /\ cfgExpression \in ExpressionRefs
    /\ cfgHairStyle \in BOOLEAN
    /\ cfgHairColor \in BOOLEAN
    /\ Cardinality({i \in 1..6 :
            <<cfgOutfit.kind /= "none", cfgOverOutfit.kind /= "none",
              cfgStyle.kind /= "none", cfgExpression.kind /= "none",
              cfgHairStyle, cfgHairColor>>[i]}) <= MaxComponents
    /\ compPc = "config"
    /\ components = NoComponents
    /\ prompt = << >>
    /\ sections = NoSections

CompIdle ==
    /\ cfgOutfit = NoRef
    /\ cfgOverOutfit = NoRef
    /\ cfgStyle = NoStyle
    /\ cfgExpression = NoExpression
    /\ cfgHairStyle = FALSE
    /\ cfgHairColor = FALSE
    /\ compPc = "config"
    /\ components = NoComponents
    /\ prompt = << >>
    /\ sections = NoSections

CompNext ==
    \/ \E a \in BOOLEAN, b \in BOOLEAN, c \in BOOLEAN :
          analyzeModularComponents(a, b, c)
    \/ buildModularPrompt

(***************************************************************************)
(* Outfit analysis under exclusions: src/unnamed/part_008,                 *)
(* src/pkg/analyzer/outfit_modular.go                                      *)
(***************************************************************************)

\* what analyzer.ExcludeOptions can leave out of an outfit analysis
Excludable == {"hair", "makeup", "accessories"}

NoAnalysis == [present |-> FALSE, excluded |-> {}]
Analysis(ex) == [present |-> TRUE, excluded |-> ex]

\* excludeOpts of analyzeModularComponents, from what the run is given
\* separately
ExcludeOptions(given) == given

\* ModularOutfitAnalyzer.Analyze: the prompt asks the oracle to leave out
\* what the analyzer was built to exclude
ModularAnalyze(excludeOpts) == Analysis(excludeOpts)

\* analyzeWithCache("outfit", file, modularAnalyzer) of a modular run given
\* hair, makeup or accessories separately: the entry of the outfit cache is
\* used when there is one; otherwise the analyzer is asked and its record
\* stored under outfit_<file>
ModularOutfitAnalysis(given, enableCache, ok) ==
    /\ UNCHANGED nonExVars
    /\ exRun' = given
    /\ exEnable' = enableCache
    /\ IF enableCache /\ exCache.present
         THEN /\ exUsed' = exCache
              /\ UNCHANGED exCache
         ELSE IF ok
           THEN /\ exUsed' = ModularAnalyze(ExcludeOptions(given))
                /\ exCache' = IF enableCache /\ ~exCache.present
                                THEN ModularAnalyze(ExcludeOptions(given))
                                ELSE exCache
           ELSE /\ exUsed' = NoAnalysis
                /\ UNCHANGED exCache

\* Orchestrator.AnalyzeImage("outfit", file) of a standard run: the plain
\* outfit analyzer, which excludes nothing, behind the same cache
StandardOutfitAnalysis(enableCache, ok) ==
    /\ UNCHANGED nonExVars
    /\ exRun' = {}
    /\ exEnable' = enableCache
    /\ IF enableCache /\ exCache.present
         THEN /\ exUsed' = exCache
              /\ UNCHANGED exCache
         ELSE IF ok
           THEN /\ exUsed' = Analysis({})
                /\ exCache' = IF enableCache /\ ~exCache.present
                                THEN Analysis({})
                                ELSE exCache
           ELSE /\ exUsed' = NoAnalysis
                /\ UNCHANGED exCache

\* the user clears the outfit cache between two runs
ClearOutfitCache ==
    /\ UNCHANGED nonExVars
    /\ exCache.present
    /\ exCache' = NoAnalysis
    /\ UNCHANGED <<exRun, exEnable, exUsed>>

ExInit ==
    /\ exCache = NoAnalysis
    /\ exRun = {}
    /\ exEnable = TRUE
    /\ exUsed = NoAnalysis

ExIdle == ExInit

ExNext ==
    \/ \E given \in SUBSET Excludable, e \in BOOLEAN, ok \in BOOLEAN :
          ModularOutfitAnalysis(given, e, ok)
    \/ \E e \in BOOLEAN, ok \in BOOLEAN : StandardOutfitAnalysis(e, ok)
    \/ ClearOutfitCache

(***************************************************************************)
(* ParallelMap: src/pkg/concurrent/pool.go                                 *)
(*                                                                         *)
(* One goroutine per item acquires a slot of the semaphore channel, runs   *)
(* fn, sends the indexed result and gives the slot back; a closer waits    *)
(* for all of them and closes the channel the caller ranges over.          *)
(***************************************************************************)

ItemValues == {1, 2}
PmWorkerCounts == -1..MaxPmWorkers
ItemLists == UNION {[1..n -> ItemValues] : n \in 0..MaxItems}

\* fn, when it succeeds
fn(v) == v * 10

\* make(chan struct{}, workers): the number of slots
semCap(w) == w

InFlight == {i \in 1..Len(pmItems) : gpc[i] = "fn"}

\* len(items) == 0 returns nil, nil; otherwise the channels are made and
\* one goroutine per item is started (make panics on a negative size)
Begin ==
    /\ UNCHANGED nonPmVars
    /\ pmPc = "begin"
    /\ pmPc' = IF Len(pmItems) = 0 THEN "returned"
               ELSE IF pmWorkers < 0 THEN "panicked"
               ELSE "collect"
    /\ gpc' = IF Len(pmItems) > 0 /\ pmWorkers >= 0
                THEN [i \in 1..Len(pmItems) |-> "select"]
                ELSE gpc
    /\ UNCHANGED <<pmItems, pmWorkers, sem, resultsChan, pmClosed, fnResult,
                   pmResults, pmCtxDone>>

\* goroutine: case sem <- struct{}{}
Acquire(i) ==
    /\ UNCHANGED nonPmVars
    /\ i \in DOMAIN gpc
    /\ gpc[i] = "select"
    /\ sem < semCap(pmWorkers)
    /\ sem' = sem + 1
    /\ gpc' = [gpc EXCEPT ![i] = "fn"]
    /\ UNCHANGED <<pmItems, pmWorkers, pmPc, resultsChan, pmClosed, fnResult,
                   pmResults, pmCtxDone>>

\* goroutine: case <-ctx.Done(), an error result without a value is sent
CtxDoneBranch(i) ==
    /\ UNCHANGED nonPmVars
    /\ i \in DOMAIN gpc
    /\ gpc[i] = "select"
    /\ pmCtxDone
    /\ resultsChan' = Append(resultsChan, [index |-> i, result |-> 0])
    /\ gpc' = [gpc EXCEPT ![i] = "done"]
    /\ UNCHANGED <<pmItems, pmWorkers, pmPc, sem, pmClosed, fnResult,
                   pmResults, pmCtxDone>>

\* goroutine: fn returns and its indexed result is sent
FnReturn(i, ok) ==
    /\ UNCHANGED nonPmVars
    /\ i \in DOMAIN gpc
    /\ gpc[i] = "fn"
    /\ fnResult' = [fnResult EXCEPT ![i] = IF ok THEN fn(pmItems[i]) ELSE 0]
    /\ resultsChan' = Append(resultsChan,
                             [index |-> i, result |-> fnResult'[i]])
    /\ gpc' = [gpc EXCEPT ![i] = "release"]
    /\ UNCHANGED <<pmItems, pmWorkers, pmPc, sem, pmClosed, pmResults,
                   pmCtxDone>>

\* goroutine: the deferred <-sem, then wg.Done
Release(i) ==
    /\ UNCHANGED nonPmVars
    /\ i \in DOMAIN gpc
    /\ gpc[i] = "release"
    /\ sem' = sem - 1
    /\ gpc' = [gpc EXCEPT ![i] = "done"]
    /\ UNCHANGED <<pmItems, pmWorkers, pmPc, resultsChan, pmClosed, fnResult,
                   pmResults, pmCtxDone>>

\* closer: wg.Wait(); close(resultsChan)
CloseResultsChan ==
    /\ UNCHANGED nonPmVars
    /\ pmPc = "collect"
    /\ ~pmClosed
    /\ \A i \in DOMAIN gpc : gpc[i] = "done"
    /\ pmClosed' = TRUE
    /\ UNCHANGED <<pmItems, pmWorkers, pmPc, gpc, sem, resultsChan, fnResult,
                   pmResults, pmCtxDone>>

\* caller: for res := range resultsChan { results[res.index] = res.result }
PmCollect ==
    /\ UNCHANGED nonPmVars
    /\ pmPc = "collect"
    /\ resultsChan /= << >>
    /\ pmResults' = [pmResults EXCEPT
                        ![Head(resultsChan).index] = Head(resultsChan).result]
    /\ resultsChan' = Tail(resultsChan)
    /\ UNCHANGED <<pmItems, pmWorkers, pmPc, gpc, sem, pmClosed, fnResult,
                   pmCtxDone>>

\* caller: the range ends, return results, firstErr
PmReturn ==
    /\ UNCHANGED nonPmVars
    /\ pmPc = "collect"
    /\ resultsChan = << >>
    /\ pmClosed
    /\ pmPc' = "returned"
    /\ UNCHANGED <<pmItems, pmWorkers, gpc, sem, resultsChan, pmClosed,
                   fnResult, pmResults, pmCtxDone>>

\* the caller's context is cancelled
PmCancel ==
    /\ UNCHANGED nonPmVars
    /\ pmPc /= "returned"
    /\ pmPc /= "panicked"
    /\ ~pmCtxDone
    /\ pmCtxDone' = TRUE
    /\ UNCHANGED <<pmItems, pmWorkers, pmPc, gpc, sem, resultsChan, pmClosed,
                   fnResult, pmResults>>

\* ParallelMap(ctx, items, workers, fn) is called
PmCalled(items, w) ==
    /\ pmItems = items
    /\ pmWorkers = w
    /\ pmPc = "begin"
    /\ gpc = [i \in 1..Len(items) |-> "none"]
    /\ sem = 0
    /\ resultsChan = << >>
    /\ pmClosed = FALSE
    /\ fnResult = [i \in 1..Len(items) |-> 0]
    /\ pmResults = [i \in 1..Len(items) |-> 0]
    /\ pmCtxDone = FALSE

PmInit == \E items \in ItemLists, w \in PmWorkerCounts : PmCalled(items, w)

PmIdle == PmCalled(<< >>, 1)

PmNext ==
    \/ Begin
    \/ \E i \in 1..MaxItems : Acquire(i)
    \/ \E i \in 1..MaxItems : CtxDoneBranch(i)
    \/ \E i \in 1..MaxItems, ok \in BOOLEAN : FnReturn(i, ok)
    \/ \E i \in 1..MaxItems : Release(i)
    \/ CloseResultsChan
    \/ PmCollect
    \/ PmReturn
    \/ PmCancel

\* every goroutine that can take a step eventually takes one, and every
\* call of fn returns; nothing obliges the caller to cancel
PmFairness ==
    /\ WF_vars(Begin)
    /\ \A i \in 1..MaxItems :
          /\ WF_vars(Acquire(i))
          /\ WF_vars(CtxDoneBranch(i))
          /\ WF_vars(\E ok \in BOOLEAN : FnReturn(i, ok))
          /\ WF_vars(Release(i))
    /\ WF_vars(CloseResultsChan)
    /\ WF_vars(PmCollect)
    /\ WF_vars(PmReturn)

(***************************************************************************)
(* The two cached analysis paths: src/unnamed/part_009 (AnalyzeImage),     *)
(* src/unnamed/part_008 (analyzeWithCache), over src/pkg/cache/cache.go    *)
(*                                                                         *)
(* A JSON value is either an analysis as the analyzer returned it, or the  *)
(* record {timestamp, description, analysis} that AnalyzeImage stores.     *)
(***************************************************************************)

RtKinds == {"outfit", "visual_style"}
RtFiles == {"a.png", "b.png"}
Versions == {1, 2}

\* generateKey: the kind and the base name of the file
RtKey(k, f) == k \o "_" \o f
RtKeys == {RtKey(k, f) : k \in RtKinds, f \in RtFiles}

\* what analyzer.Analyze returns
RawAnalysis(n) == [wrapped |-> FALSE, n |-> n]

\* the cache entry structure AnalyzeImage marshals around the analysis
WrapEntry(a) == [wrapped |-> TRUE, n |-> a.n]

NoData == [wrapped |-> FALSE, n |-> 0]
NoCall == [path |-> "none", key |-> "", hit |-> FALSE, value |-> NoData]

\* AnalyzeImage on a hit: the analysis field of a cache entry structure,
\* otherwise the cached data itself
Unwrapped(cached) == IF cached.wrapped THEN RawAnalysis(cached.n) ELSE cached

\* Cache.Set: an existing file is never overwritten
RtSet(key, data) ==
    IF rtCache[key] /= NoData THEN rtCache
                              ELSE [rtCache EXCEPT ![key] = data]

\* Orchestrator.AnalyzeImage(analyzerType, imagePath)
OrchestratorAnalyzeImage(k, f, n, ok, enable) ==
    /\ UNCHANGED nonRtVars
    /\ IF ~enable
         THEN /\ rtCall' = [path |-> "AnalyzeImage", key |-> RtKey(k, f),
                            hit |-> FALSE,
                            value |-> IF ok THEN RawAnalysis(n) ELSE NoData]
              /\ UNCHANGED <<rtCache, rtPopulated>>
         ELSE IF rtCache[RtKey(k, f)] /= NoData
         THEN /\ rtCall' = [path |-> "AnalyzeImage", key |-> RtKey(k, f),
                            hit |-> TRUE,
                            value |-> Unwrapped(rtCache[RtKey(k, f)])]
              /\ UNCHANGED <<rtCache, rtPopulated>>
         ELSE IF ~ok
         THEN /\ rtCall' = [path |-> "AnalyzeImage", key |-> RtKey(k, f),
                            hit |-> FALSE, value |-> NoData]
              /\ UNCHANGED <<rtCache, rtPopulated>>
         ELSE /\ rtCache' = RtSet(RtKey(k, f), WrapEntry(RawAnalysis(n)))
              /\ rtPopulated' = [rtPopulated EXCEPT
                                    ![RtKey(k, f)] = RawAnalysis(n)]
              /\ rtCall' = [path |-> "AnalyzeImage", key |-> RtKey(k, f),
                            hit |-> FALSE, value |-> RawAnalysis(n)]

\* analyzeWithCache(cacheType, imagePath, analyzer)
analyzeWithCache(k, f, n, ok, enable) ==
    /\ UNCHANGED nonRtVars
    /\ IF enable /\ rtCache[RtKey(k, f)] /= NoData
         THEN /\ rtCall' = [path |-> "analyzeWithCache", key |-> RtKey(k, f),
                            hit |-> TRUE, value |-> rtCache[RtKey(k, f)]]
              /\ UNCHANGED <<rtCache, rtPopulated>>
         ELSE IF ~ok
         THEN /\ rtCall' = [path |-> "analyzeWithCache", key |-> RtKey(k, f),
                            hit |-> FALSE, value |-> NoData]
              /\ UNCHANGED <<rtCache, rtPopulated>>
         ELSE IF ~enable
         THEN /\ rtCall' = [path |-> "analyzeWithCache", key |-> RtKey(k, f),
                            hit |-> FALSE, value |-> RawAnalysis(n)]
              /\ UNCHANGED <<rtCache, rtPopulated>>
         ELSE /\ rtCache' = RtSet(RtKey(k, f), RawAnalysis(n))
              /\ rtPopulated' = [rtPopulated EXCEPT
                                    ![RtKey(k, f)] = RawAnalysis(n)]
              /\ rtCall' = [path |-> "analyzeWithCache", key |-> RtKey(k, f),
                            hit |-> FALSE, value |-> RawAnalysis(n)]

\* Cache.Clear: the cache directory is removed
RtClear ==
    /\ UNCHANGED nonRtVars
    /\ \E key \in RtKeys : rtCache[key] /= NoData
    /\ rtCache' = [key \in RtKeys |-> NoData]
    /\ rtPopulated' = [key \in RtKeys |-> NoData]
    /\ rtCall' = NoCall

RtInit ==
    /\ rtCache = [key \in RtKeys |-> NoData]
    /\ rtPopulated = [key \in RtKeys |-> NoData]
    /\ rtCall = NoCall

RtIdle == RtInit

RtNext ==
    \/ \E k \in RtKinds, f \in RtFiles, n \in Versions, ok \in BOOLEAN,
          enable \in BOOLEAN : OrchestratorAnalyzeImage(k, f, n, ok, enable)
    \/ \E k \in RtKinds, f \in RtFiles, n \in Versions, ok \in BOOLEAN,
          enable \in BOOLEAN : analyzeWithCache(k, f, n, ok, enable)
    \/ RtClear

(***************************************************************************)
(* Specifications                                                          *)
(***************************************************************************)

\* one outfit-swap run
Init == WfInit /\ CacheIdle /\ RetryIdle /\ LimIdle /\ PoolIdle /\ ClientIdle /\ ResIdle
    /\ ExIdle
    /\ CompIdle
    /\ PmIdle
    /\ RtIdle

Next == WfNext

Spec == Init /\ [][Next]_vars

\* one cache key used by one caller at a time
InitCache == CacheInit /\ WfIdle /\ RetryIdle /\ LimIdle /\ PoolIdle /\ ClientIdle /\ ResIdle
    /\ ExIdle
    /\ CompIdle
    /\ PmIdle
    /\ RtIdle

NextCache == CacheNext

SpecCache == InitCache /\ [][NextCache]_vars

\* one cache key written by two callers at once
NextCacheRace == RaceNext

SpecCacheRace == InitCache /\ [][NextCacheRace]_vars

\* one request in a client
InitRetry == RetryInit /\ WfIdle /\ CacheIdle /\ LimIdle /\ PoolIdle /\ ClientIdle /\ ResIdle
    /\ ExIdle
    /\ CompIdle
    /\ PmIdle
    /\ RtIdle

NextRetry == RetryNext

SpecRetry == InitRetry /\ [][NextRetry]_vars

\* callers sharing one rate limiter
InitLimiter == LimInit /\ WfIdle /\ CacheIdle /\ RetryIdle /\ PoolIdle /\ ClientIdle /\ ResIdle
    /\ ExIdle
    /\ CompIdle
    /\ PmIdle
    /\ RtIdle

NextLimiter == LimNext

SpecLimiter == InitLimiter /\ [][NextLimiter]_vars

\* one worker pool and the goroutines around it
InitPool == PoolInit /\ WfIdle /\ CacheIdle /\ RetryIdle /\ LimIdle /\ ClientIdle /\ ResIdle
    /\ ExIdle
    /\ CompIdle
    /\ PmIdle
    /\ RtIdle

NextPool == PoolNext

SpecPool == InitPool /\ [][NextPool]_vars

\* one call of ProcessBatch under a fair scheduler
InitBatch == BatchInit /\ WfIdle /\ CacheIdle /\ RetryIdle /\ LimIdle /\ ClientIdle /\ ResIdle
    /\ ExIdle
    /\ CompIdle
    /\ PmIdle
    /\ RtIdle

NextBatch == BatchNext

SpecBatch == InitBatch /\ [][NextBatch]_vars /\ BatchFairness

\* the reference resolution of one modular run
InitResolve == ResInit /\ WfIdle /\ CacheIdle /\ RetryIdle /\ LimIdle /\ PoolIdle /\ ClientIdle
    /\ ExIdle
    /\ CompIdle
    /\ PmIdle
    /\ RtIdle

NextResolve == ResNext

SpecResolve == InitResolve /\ [][NextResolve]_vars

\* the composition of one directive
InitCompose == CompInit /\ WfIdle /\ CacheIdle /\ RetryIdle /\ LimIdle /\ PoolIdle
    /\ ExIdle
    /\ ClientIdle /\ ResIdle
    /\ PmIdle
    /\ RtIdle

NextCompose == CompNext

SpecCompose == InitCompose /\ [][NextCompose]_vars

\* the outfit analysis of one file over several runs
InitExclude == ExInit /\ WfIdle /\ CacheIdle /\ RetryIdle /\ LimIdle /\ PoolIdle
    /\ ClientIdle /\ ResIdle /\ CompIdle
    /\ PmIdle
    /\ RtIdle

NextExclude == ExNext

SpecExclude == InitExclude /\ [][NextExclude]_vars

\* callers sending one request each through one client
InitClients == ClientInit /\ LimInit /\ WfIdle /\ CacheIdle /\ RetryIdle /\ PoolIdle /\ ResIdle
    /\ ExIdle
    /\ CompIdle
    /\ PmIdle
    /\ RtIdle

NextClients == ClientNext

SpecClients == InitClients /\ [][NextClients]_vars /\ ClientFairness

\* one call of ParallelMap under a fair scheduler
InitMap == PmInit /\ WfIdle /\ CacheIdle /\ RetryIdle /\ LimIdle /\ PoolIdle /\ ClientIdle
    /\ ResIdle /\ CompIdle /\ ExIdle
    /\ RtIdle

NextMap == PmNext

SpecMap == InitMap /\ [][NextMap]_vars /\ PmFairness

\* analysis calls of both paths over one cache directory
InitRoundTrip == RtInit /\ WfIdle /\ CacheIdle /\ RetryIdle /\ LimIdle /\ PoolIdle
    /\ ClientIdle /\ ResIdle /\ CompIdle /\ ExIdle /\ PmIdle

NextRoundTrip == RtNext

SpecRoundTrip == InitRoundTrip /\ [][NextRoundTrip]_vars

(***************************************************************************)
(* Properties of the sweep driver                                          *)
(***************************************************************************)

\* the run has returned normally after sweeping its plan
Completed ==
    /\ wfPc = "returned"
    /\ wfErr = ""
    /\ hasModularComponents => combos > 0

\* |subjects| x product over the slots of max(1, |R_k|) x V
PlanSize ==
    targetImages
      * maxInt(1, files["outfit"]) * maxInt(1, files["overOutfit"])
      * maxInt(1, files["style"]) * maxInt(1, files["hairStyle"])
      * maxInt(1, files["hairColor"]) * maxInt(1, files["makeup"])
      * maxInt(1, files["expression"]) * maxInt(1, files["accessories"])
      * variations

\* C1: once the estimated total cost of a run exceeds the configured
\* maximum, no generation call is ever made, on the standard and on the
\* modular path, whatever --no-confirm and the answer at the prompt are.
C1_NoGenerationAboveMaximum ==
    (wfPc /= "start" /\ CalculateTotalCost(estimate) > MaximumCost)
        => genCalls = 0

\* C2: a run whose cost prompt was answered with anything but a yes has
\* returned, has made no generation call and has written no output file.
C2_DeclineGeneratesNothing ==
    (answer \in Answers \ {"y", "yes"})
        => (wfPc = "returned" /\ genCalls = 0 /\ written = 0 /\ steps = 0)

\* a run of the modular path whose prompt was declined
C2_Witness ==
    /\ hasModularComponents
    /\ ~skipCostConfirm
    /\ estimate * ModularCostPerImage > ModularConfirmThreshold
    /\ answer = "n"
    /\ wfPc = "returned"

C13_PathsDistinct == ~dupPath

\* iterations of the sweep a run has to begin: one per combination on the
\* modular path, one per subject and outfit on the standard path
PlanIterations ==
    IF hasModularComponents
      THEN targetImages
             * maxInt(1, files["outfit"]) * maxInt(1, files["overOutfit"])
             * maxInt(1, files["style"]) * maxInt(1, files["hairStyle"])
             * maxInt(1, files["hairColor"]) * maxInt(1, files["makeup"])
             * maxInt(1, files["expression"]) * maxInt(1, files["accessories"])
      ELSE targetImages * files["outfit"]

SweepEnded == wfPc = "returned" /\ combos > 0

Position(c, v) ==
    <<c["subject"], c["outfit"], c["overOutfit"], c["style"], c["hairStyle"],
      c["hairColor"], c["makeup"], c["expression"], c["accessories"], v>>

LexLess(a, b) ==
    \E i \in 1..Len(a) : a[i] < b[i] /\ \A j \in 1..(i - 1) : a[j] = b[j]

Declined == answer \in {"n", ""}

\* C19: when the user declines at the cost prompt, the workflow returns to
\* the command layer without an error, on the standard path and on the
\* modular path alike.
C19_DeclineIsCleanExit ==
    (wfPc = "returned" /\ Declined) => wfErr = ""

\* C26: on the standard and on the modular path, the number of images the
\* run summary prints equals the number of generation steps recorded with
\* an output path in the workflow result.
C26_SummaryCountsSteps ==
    (wfPc = "returned" /\ wfErr = "") => generatedCount = steps

(***************************************************************************)
(* Properties of the cache                                                 *)
(***************************************************************************)

\* C4: a Get that finds an entry stored by Set for bytes the reference
\* image no longer has reports a miss and leaves no cache file behind.
C4_StaleEntryInvalidated ==
    (got.called /\ got.stale)
        => (~got.hit /\ cacheFile.state = "absent")

\* C5: a Get that finds an entry whose age has reached the TTL reports a
\* miss, whether or not the identity of the image still matches.
C5_ExpiredEntryIsMiss ==
    (got.called /\ got.hadEntry /\ got.age >= TTL) => ~got.hit

\* C6: from an external edit that put record r2 into the cache file on,
\* while the image is unchanged (and the cache is neither cleared nor the
\* entry expired), no Set changes the file and every Get returns r2.
C6_ManualEditSurvives ==
    (pinned.data /= 0 /\ now - pinned.ts < TTL)
        => /\ Parseable(cacheFile)
           /\ cacheFile.data = pinned.data
           /\ got.called => (got.hit /\ got.data = pinned.data)

\* C7: when two concurrent Set calls with different records have both
\* returned, the file holds the record of the writer that wrote first.
C7_FirstWriterWins ==
    (/\ \A w \in Writers : setPc[w] = "done"
     /\ setEntry["w1"].data /= setEntry["w2"].data)
        => /\ firstWriter /= "none"
           /\ cacheFile = setEntry[firstWriter]

C24_IndexAgreesWithDisk ==
    impl = "OptimizedCache" =>
        /\ index.present <=> cacheFile.state /= "absent"
        /\ got.hit => cacheFile.state /= "absent"

\* C25: a cache file that exists but cannot be parsed does not block its
\* key: Get reports a miss, and a Set that follows (its write succeeding)
\* stores the new record, so that the next Get finds it.
C25_UnparseableFileIsReplaced ==
    [][/\ (cacheFile.state = "garbage" /\ CacheGet) => ~got'.hit
       /\ \A r \in Records :
             (cacheFile.state = "garbage" /\ CacheSet(r, TRUE)) =>
                 (Found' /\ cacheFile'.data = r)]_vars

(***************************************************************************)
(* Properties of the retrying client                                       *)
(***************************************************************************)

\* C8: whatever the oracle answers (transport error, 5xx, 429, any other
\* status), one request makes at most MaxRetries + 1 outbound calls, which
\* is 4 with the default MaxRetries of 3.
C8_AtMostMaxRetriesPlusOneCalls ==
    /\ calls <= maxRetries + 1
    /\ maxRetries = DefaultMaxRetries => calls <= 4

C8_Witness ==
    /\ client = "OptimizedClient"
    /\ maxRetries = DefaultMaxRetries
    /\ retryPc = "returned"
    /\ result.kind = "APIError"
    /\ calls = maxRetries + 1

Retryable(o) == o.err \/ o.status >= 500 \/ o.status = 429
Terminal4xx(o) == ~o.err /\ o.status >= 400 /\ o.status < 500 /\ o.status /= 429
All429 == outcomes /= << >> /\ \A i \in 1..Len(outcomes) : outcomes[i] = Response(429)

\* C9: DoWithRetry makes another attempt only after a transport error, a 5xx
\* or a 429; any other 4xx is the last call of the request and is returned
\* to the caller as it came; a request that is not cancelled and whose every
\* attempt ended in 429 returns an APIError after MaxRetries + 1 calls.
C9_RetryClassification ==
    client = "OptimizedClient" =>
        /\ \A i \in 1..Len(outcomes) :
              (i < Len(outcomes) \/ retryPc /= "returned") => Retryable(outcomes[i])
        /\ \A i \in 1..Len(outcomes) :
              Terminal4xx(outcomes[i]) =>
                  /\ i = Len(outcomes)
                  /\ retryPc = "returned"
                  /\ result = Returned("resp", outcomes[i].status)
        /\ (retryPc = "returned" /\ ~ctxDone /\ All429) =>
              (result.kind = "APIError" /\ calls = maxRetries + 1)

C9_Witness ==
    /\ client = "OptimizedClient"
    /\ retryPc = "returned"
    /\ ~ctxDone
    /\ All429
    /\ Len(outcomes) >= 2
    /\ result.kind = "APIError"

(***************************************************************************)
(* Properties of the rate limiter                                          *)
(***************************************************************************)

RECURSIVE AdmittedWithin(_)
AdmittedWithin(a) == IF a < 0 THEN 0 ELSE admitted[a] + AdmittedWithin(a - 1)

\* calls admitted in the second that ends now, its far end excluded
CallsInWindow == AdmittedWithin(Second - 1)
\* the same with both ends of the second included
CallsInClosedWindow == AdmittedWithin(Second)

\* C10 as stated: in any 1-second window the limiter built for R requests
\* per second admits at most R + 1 calls.
C10_AtMostRPlusOne == CallsInWindow <= rps + 1

\* C10 amended: in any 1-second window, both ends included, the limiter
\* admits at most 2R calls: a full bucket of R and the R refills of a second.
C10_AtMostTwoR == CallsInClosedWindow <= 2 * rps

C10_Witness ==
    /\ rps >= 3
    /\ CallsInWindow > rps + 1
    /\ CallsInClosedWindow = 2 * rps

(***************************************************************************)
(* Properties of the worker pool                                           *)
(***************************************************************************)

Delivered == {collected[i] : i \in 1..Len(collected)}

\* C11: once the run is cancelled (the context given to ProcessBatch, or
\* Shutdown on the pool), the queue takes no further task and no worker
\* takes a task that was not in flight, and when the caller has received
\* the last result it holds the result of every task that was processed.
C11_CancelStopsDispatch ==
    /\ acceptedAfter = {}
    /\ startedAfter = {}
    /\ collectorDone => processed \subseteq Delivered

(***************************************************************************)
(* Properties of cancellation in the client                                *)
(***************************************************************************)

Blocked(c) == reqPc[c] \in {"lock", "sleep", "backoff"}

\* C12: a caller whose context is cancelled while it waits for a token of
\* the limiter (asleep in Wait or waiting for the limiter's mutex) or sleeps
\* in the retry backoff gets an error back from DoWithRetry, and from the
\* cancellation on none of its requests goes out; this is so for each of the
\* callers that share the limiter.
C12_CancelledCallReturnsError ==
    /\ \A c \in Callers :
          (cancelled[c] /\ Blocked(c)) ~>
              (reqPc[c] = "returned" /\ reqResult[c] \in ErrorResults)
    /\ [][\A c \in Callers : cancelled[c] => sent'[c] = sent[c]]_vars

C12_Witness ==
    /\ \A c \in Callers : cancelled[c] /\ reqPc[c] = "returned"
    /\ reqResult["a"] = "APIError" /\ sent["a"] = 0
    /\ reqResult["b"] = "ctxErr" /\ sent["b"] >= 1


RECURSIVE Pow2(_)
Pow2(n) == IF n = 0 THEN 1 ELSE 2 * Pow2(n - 1)

\* every call so far ended in a transport error or a 5xx
OnlyFaults == \A i \in 1..Len(outcomes) : outcomes[i].err \/ outcomes[i].status >= 500

\* C18: inside one request the wait before the k-th retry, after k calls
\* that all ended in a transport error or a 5xx, is min(1 s * 2^(k-1), 30 s);
\* no wait is longer than 30 s; the wait after a 429 is exactly 30 s.
C18_BackoffSchedule ==
    retryPc = "backoff" =>
        /\ backoff <= 30
        /\ OnlyFaults =>
              backoff = (IF Pow2(Len(outcomes) - 1) < 30
                           THEN Pow2(Len(outcomes) - 1) ELSE 30)
        /\ (~outcomes[Len(outcomes)].err /\ outcomes[Len(outcomes)].status = 429) =>
              backoff = 30

C18_Witness ==
    /\ retryPc = "backoff"
    /\ OnlyFaults
    /\ Len(outcomes) = 6
    /\ backoff = 30

(***************************************************************************)
(* Properties of the reference resolution                                  *)
(***************************************************************************)

\* the inputs the resolution refuses: a style that names nothing existing,
\* and a directory (taken as one) without image files
Refused(slot, in) ==
    \/ slot = "style" /\ in.kind \in {"missing", "text"}
    \/ in.kind = "directory" /\ in.images = 0 /\ (slot = "style" \/ in.dotted)

OuterLayer ==
    SelectSeq(cfgOutfit.clothing,
              LAMBDA g : g \in {"jacket", "coat", "overcoat", "blazer",
                                "cardigan", "bomber", "trench", "parka",
                                "vest", "shawl", "cape"})

\* the description of the over-outfit: its text, or what its analysis lists
OverOutfitDescription ==
    IF cfgOverOutfit.kind = "text" THEN <<cfgOverOutfit.text>>
    ELSE IF cfgOverOutfit.clothing = <<>> THEN <<"Standard outfit">>
    ELSE cfgOverOutfit.clothing

Layered == compPc = "prompted" /\ cfgOutfit.kind = "image" /\ cfgOverOutfit.kind /= "none"

\* C20: with an outfit image and an over-outfit both given, a non-empty
\* outer-layer extraction puts both descriptions into the directive, the
\* over-outfit as the base outfit and the extraction as the outer layer; an
\* empty extraction leaves the over-outfit description as the only outfit
\* description of the directive.
C20_LayeredOutfit ==
    Layered =>
        IF OuterLayer /= <<>>
          THEN /\ Len(prompt) = 2
               /\ \E i \in 1..2 :
                     /\ prompt[i].heading = "COMPLETE BASE OUTFIT (all clothing worn underneath):"
                     /\ prompt[i].description = OverOutfitDescription
               /\ \E i \in 1..2 :
                     /\ prompt[i].heading = "OUTER LAYER ONLY (jacket/coat worn over the base outfit):"
                     /\ prompt[i].description = OuterLayer
          ELSE /\ Len(prompt) = 1
               /\ prompt[1].description = OverOutfitDescription

C20_Witness ==
    /\ Layered
    /\ cfgOutfit.clothing = <<"jacket", "t-shirt", "jeans">>
    /\ cfgOverOutfit.clothing = <<"dress">>
    /\ Len(prompt) = 2
    /\ prompt[1].description = <<"dress">>
    /\ prompt[2].description = <<"jacket">>

\* the style given is a first-person style
StyleIsPOV ==
    \E i \in 1..Len(cfgStyle.description) :
        cfgStyle.description[i] \in {"first-person", "first person", "pov"}

\* what the expression given says about the gaze
GazeSentences ==
    {"Gaze: at camera", "gazing directly at the camera",
     "staring straight into the lens", "smiling, looking at the camera"}

ExpressionHasGaze ==
    \/ cfgExpression.gaze /= ""
    \/ cfgExpression.text \in GazeSentences
    \/ \E i \in 1..Len(cfgExpression.overall) :
          cfgExpression.overall[i] \in GazeSentences

\* every description put into the directive
Descriptions ==
    {prompt[i].description : i \in 1..Len(prompt)}
    \cup {sections.hair[i].description : i \in 1..Len(sections.hair)}
    \cup {sections.expression[i].description : i \in 1..Len(sections.expression)}

\* C21: with a POV style and an expression that names a gaze, the framing
\* block of the directive is the POV block and no gaze sentence of the
\* expression (its gaze.direction, a gaze sentence of its overall text or of
\* its free text) is anywhere in the directive.
C21_NoGazeUnderPOV ==
    (compPc = "prompted" /\ StyleIsPOV /\ ExpressionHasGaze) =>
        /\ sections.framing = "THIS IS A FIRST-PERSON POV SHOT"
        /\ \A d \in Descriptions : \A i \in 1..Len(d) : d[i] \notin GazeSentences

\* C22: whenever a hair style is given and a hair color is not, the directive
\* holds an explicit clause that the subject's original hair color be
\* preserved, whatever the other components are (POV styles included).
C22_HairColorPreserved ==
    (compPc = "prompted" /\ cfgHairStyle /\ ~cfgHairColor) =>
        \E i \in 1..Len(sections.hair) :
            /\ sections.hair[i].heading = "CRITICAL HAIR COLOR PRESERVATION"
            /\ sections.hair[i].description =
                  <<"DO NOT CHANGE THE SUBJECT'S HAIR COLOR! The subject's original hair color from the source portrait MUST be preserved EXACTLY.">>

C22_Witness ==
    /\ compPc = "prompted"
    /\ cfgHairStyle
    /\ ~cfgHairColor
    /\ StyleIsPOV
    /\ Len(sections.hair) = 3

(***************************************************************************)
(* Properties of the outfit analysis under exclusions                      *)
(***************************************************************************)

\* C23: whenever hair, makeup or accessories are given separately in a run,
\* the outfit analysis the run works with was made with each of them
\* excluded, also when it comes from the outfit cache an earlier run with
\* other exclusions filled.
C23_ExclusionsInEffect ==
    exUsed.present => exRun \subseteq exUsed.excluded


(***************************************************************************)
(* Properties of the worker pool's life cycle                              *)
(***************************************************************************)

\* C27: no interleaving of Submit, Wait and Shutdown on one WorkerPool sends
\* on a closed channel or closes a channel twice: no run of the pool panics.
C27_NoChannelPanic == panicked = NoPanic


\* the result list of a returned ProcessBatch
Occurrences(t) == Cardinality({i \in 1..Len(collected) : collected[i] = t})

OneResultPerTask ==
    /\ Len(collected) = nTasks
    /\ \A t \in 1..nTasks : Occurrences(t) = 1

\* C28: for every task list and worker count ProcessBatch terminates, with
\* every worker gone, and returns exactly one result per submitted task.
C28_BatchReturnsOneResultPerTask ==
    /\ [](collectorDone => OneResultPerTask)
    /\ <>(collectorDone /\ WgZero)

C28_Witness ==
    /\ collectorDone
    /\ nTasks = MaxTasks
    /\ nWorkers = MaxWorkers
    /\ callerCtxDone
    /\ OneResultPerTask


(***************************************************************************)
(* Properties of ParallelMap                                               *)
(***************************************************************************)

\* every slot of the returned slice holds what fn returned for its item
ResultsMatch == \A i \in 1..Len(pmItems) : pmResults[i] = fnResult[i]

\* C29: with a context that is never cancelled and an fn that always
\* returns, ParallelMap returns for every worker count, results[i] is fn's
\* result for items[i], and at most `workers` calls of fn are in flight.
C29_ParallelMapReturns ==
    /\ ([]~pmCtxDone) => <>(pmPc = "returned")
    /\ [](pmPc = "returned" => ResultsMatch)
    /\ [](pmWorkers >= 0 => Cardinality(InFlight) <= pmWorkers)


(***************************************************************************)
(* Properties of the two cached analysis paths                             *)
(***************************************************************************)

\* C30: whichever path stored an entry and whichever path reads it, the
\* analysis returned on a cache hit is the analysis returned by the call
\* that populated the entry.
C30_CacheRoundTrip ==
    rtCall.hit => rtCall.value = rtPopulated[rtCall.key]

=============================================================================
